---- MODULE Spec2Model ----
(***************************************************************************)
(* A state-machine model of the Gilgamesh / Squared scripting language     *)
(* runtime of src/mesh/parser.js: the chained Scope frames and the         *)
(* tree-walking Interpreter (run, executeBlock, executeStatement,          *)
(* evaluate).                                                              *)
(*                                                                         *)
(* Every `await` of the interpreter is a point at which the JavaScript     *)
(* call stack is unwound and later resumed, so an execution is modelled as *)
(* a task with an explicit stack of frames, one frame per pending call of  *)
(* executeBlock / executeStatement / evaluate.  The field pc of a frame    *)
(* names the await the call is suspended at; one action of the model is    *)
(* the code that runs between two awaits of one handler.                   *)
(*                                                                         *)
(* Numbers are the integers (the programs of the model stay within exact   *)
(* integer arithmetic of IEEE doubles); NaN is a value of its own.         *)
(***************************************************************************)
EXTENDS Integers, Sequences, FiniteSets, TLC

VARIABLES
    scopes,     \* the arena of Scope objects; scopes[1] is this.globals
    tasks,      \* the pending async executions (run() and Promise.all branches)
    stop,       \* this.stop
    opCounter,  \* this.opCounter, kept modulo YieldEvery
    console,    \* what the print builtin handed to console.log, oldest first
    prog,       \* descriptor (in Programs) of the AST given to the last run()
    runs,       \* number of run() calls made so far
    trace,      \* history: events of the current run() (statements started, calls made)
    evalCache,  \* this.evalCache: source text -> body of the Program parsed from it
    compiled,   \* history: the source texts handed to the Lexer and Parser, oldest first
    lexer,      \* a Lexer at work in tokenize(), LexerIdle when there is none
    squared,    \* an evaluateExpression call of the Map-based Interpreter
                \* (src/unnamed/part_001), SquaredIdle when there is none
    output,     \* the texts the host's output callback was called with, oldest first
    unyielded,  \* history: statements that ran to completion since the host last had control
    parser,     \* a Parser once parse() has returned or thrown, ParserIdle before
    sqrd,       \* a Map-based Interpreter (src/unnamed/part_001) and its run() call,
                \* SqrdIdle when there is none
    mesh        \* the module state of the MESH engine (src/mesh/MESH.js) and where
                \* the script that draws with it is

vars == <<scopes, tasks, stop, opCounter, console, prog, runs, trace,
          evalCache, compiled, lexer, squared, output, unyielded, parser, sqrd, mesh>>

-----------------------------------------------------------------------------
(* Bounds of the model *)

MaxRuns == 1
\* run() calls made on one Interpreter in a session of the session programs
MaxSessions == 2
\* statements and loop tests an execution makes before the host cancels it
MaxTrace == 20
\* arguments of a call expression given to the Map-based Interpreter
MaxArgs == 1
\* lines of a source text given to the Lexer
MaxLines == 3
\* leading whitespace characters of a line
MaxLead == 2
\* characters of a line given to tokenizeLine
MaxChars == 4
MaxBody == 1
\* events of a run() the history keeps
MaxHistory == 100
\* Largest value of the range of the loops that never reach a multiple of
\* ForYieldEvery
MaxRange == 32

(* Program constants *)

YieldEvery == 1000
ForYieldEvery == 50

-----------------------------------------------------------------------------
(* Runtime values.  Every value is a record tagged by t. *)

Undefined == [t |-> "undefined"]
Null == [t |-> "null"]
NaN == [t |-> "nan"]
Bool(b) == [t |-> "bool", v |-> b]
Num(n) == [t |-> "num", v |-> n]
Str(s) == [t |-> "str", v |-> s]
Array(es) == [t |-> "array", v |-> es]
Object(props) == [t |-> "object", v |-> props]
Builtin(name) == [t |-> "builtin", v |-> name]

\* The closure of a FunctionDeclaration: the node and the Scope it was declared in.
Closure(node, scope) == [t |-> "function", node |-> node, scope |-> scope]

EmptyMap == [k \in {} |-> Undefined]

\* JavaScript ToBoolean, as used by `if (x)`, `!l`, `while (x)`.
Truthy(x) ==
    CASE x.t = "undefined" -> FALSE
      [] x.t = "null" -> FALSE
      [] x.t = "nan" -> FALSE
      [] x.t = "bool" -> x.v
      [] x.t = "num" -> x.v # 0
      [] x.t = "str" -> x.v # ""
      [] OTHER -> TRUE

\* typeof x === 'function'
IsCallable(x) == x.t \in {"function", "builtin"}

\* x && typeof x === 'object'  (null is excluded by the truthiness test)
IsObjectLike(x) == x.t \in {"object", "array"}

-----------------------------------------------------------------------------
(* class Scope *)

NewScope(parent) == [values |-> EmptyMap, parent |-> parent]

ScopeHas(sc, s, name) == name \in DOMAIN sc[s].values

RECURSIVE ScopeGet(_, _, _)
ScopeGet(sc, s, name) ==
    IF ScopeHas(sc, s, name) THEN sc[s].values[name]
    ELSE IF sc[s].parent # 0 THEN ScopeGet(sc, sc[s].parent, name)
    ELSE Undefined

ScopeSet(sc, s, name, val) ==
    [sc EXCEPT ![s].values = (name :> val) @@ @]

ScopeDelete(sc, s, name) ==
    [sc EXCEPT ![s].values = [k \in (DOMAIN @) \ {name} |-> @[k]]]

\* Scope.assign: the arena after the call and the boolean it returns.
RECURSIVE ScopeAssign(_, _, _, _)
ScopeAssign(sc, s, name, val) ==
    IF ScopeHas(sc, s, name) THEN [ok |-> TRUE, scopes |-> ScopeSet(sc, s, name, val)]
    ELSE IF sc[s].parent # 0 THEN ScopeAssign(sc, sc[s].parent, name, val)
    ELSE [ok |-> FALSE, scopes |-> sc]

-----------------------------------------------------------------------------
(* The operators of evaluate's BinaryExpression and of the compound         *)
(* assignments, on primitive operands (the programs of the model apply them *)
(* to primitives only; object identity and string ordering are not         *)
(* modelled).                                                              *)

IsPrimitive(x) == x.t \in {"undefined", "null", "nan", "bool", "num", "str"}

\* The numeric strings the programs of the model use.
NumericStrings == [s \in {"0", "1", "2", "3", "4", "5"} |->
    CASE s = "0" -> 0 [] s = "1" -> 1 [] s = "2" -> 2
      [] s = "3" -> 3 [] s = "4" -> 4 [] OTHER -> 5]

\* JavaScript ToNumber / Number(x)
ToNumber(x) ==
    CASE x.t = "num" -> x
      [] x.t = "bool" -> Num(IF x.v THEN 1 ELSE 0)
      [] x.t = "null" -> Num(0)
      [] x.t = "str" -> IF x.v = "" THEN Num(0)
                        ELSE IF x.v \in DOMAIN NumericStrings THEN Num(NumericStrings[x.v])
                        ELSE NaN
      [] OTHER -> NaN

\* JavaScript ToString / String(x) of a primitive
ToStr(x) ==
    CASE x.t = "str" -> x.v
      [] x.t = "num" -> ToString(x.v)
      [] x.t = "bool" -> IF x.v THEN "true" ELSE "false"
      [] x.t = "null" -> "null"
      [] x.t = "undefined" -> "undefined"
      [] OTHER -> "NaN"

\* a / b where the quotient is an integer; a division by zero or with a
\* fractional quotient is outside the integers of the model and yields NaN.
Divide(a, b) ==
    LET abs(n) == IF n < 0 THEN -n ELSE n
        q == abs(a) \div (IF b = 0 THEN 1 ELSE abs(b))
    IN  IF b = 0 \/ abs(a) % abs(b) # 0 THEN NaN
        ELSE Num(IF (a < 0) = (b < 0) THEN q ELSE -q)

Arith(op, l, r) ==
    LET a == ToNumber(l)
        b == ToNumber(r)
    IN  IF a.t # "num" \/ b.t # "num" THEN NaN
        ELSE CASE op = "+" -> Num(a.v + b.v)
               [] op = "-" -> Num(a.v - b.v)
               [] op = "*" -> Num(a.v * b.v)
               [] op = "/" -> Divide(a.v, b.v)
               [] OTHER -> NaN

\* l + r: string concatenation as soon as one operand is a string
Plus(l, r) ==
    IF l.t = "str" \/ r.t = "str" THEN Str(ToStr(l) \o ToStr(r)) ELSE Arith("+", l, r)

\* l == r (loose equality)
LooseEq(l, r) ==
    CASE l.t \in {"undefined", "null"} -> r.t \in {"undefined", "null"}
      [] r.t \in {"undefined", "null"} -> FALSE
      [] l.t = "str" /\ r.t = "str" -> l.v = r.v
      [] OTHER -> LET a == ToNumber(l)
                      b == ToNumber(r)
                  IN  a.t = "num" /\ b.t = "num" /\ a.v = b.v

\* l < r (numeric; a comparison with NaN is false)
LessThan(l, r) ==
    LET a == ToNumber(l)
        b == ToNumber(r)
    IN  a.t = "num" /\ b.t = "num" /\ a.v < b.v

LessEq(l, r) ==
    LET a == ToNumber(l)
        b == ToNumber(r)
    IN  a.t = "num" /\ b.t = "num" /\ a.v <= b.v

\* The switch of evaluate's BinaryExpression (the operators that are not
\* short-circuited).
BinaryOp(op, l, r) ==
    CASE op = "+" -> Plus(l, r)
      [] op \in {"-", "*", "/"} -> Arith(op, l, r)
      [] op = "==" -> Bool(LooseEq(l, r))
      [] op = "!=" -> Bool(~LooseEq(l, r))
      [] op = ">" -> Bool(LessThan(r, l))
      [] op = "<" -> Bool(LessThan(l, r))
      [] op = ">=" -> Bool(LessEq(r, l))
      [] op = "<=" -> Bool(LessEq(l, r))
      [] OTHER -> Null

\* The switch of the compound assignments: current (op) val
CompoundOp(op, current, val) ==
    CASE op = "+=" -> Plus(current, val)
      [] op = "-=" -> Arith("-", current, val)
      [] op = "*=" -> Arith("*", current, val)
      [] op = "/=" -> Arith("/", current, val)
      [] OTHER -> val

-----------------------------------------------------------------------------
(* AST nodes, with the field names the Parser gives them.  A Literal holds  *)
(* the runtime value; line is the source line parseStatement stores.        *)

Literal(v) == [type |-> "Literal", value |-> v]
Identifier(n) == [type |-> "Identifier", value |-> n]
ArrayLiteral(es) == [type |-> "ArrayLiteral", elements |-> es]
BinaryExpression(l, op, r) ==
    [type |-> "BinaryExpression", left |-> l, operator |-> op, right |-> r]
CallExpression(callee, args) ==
    [type |-> "CallExpression", callee |-> callee, arguments |-> args]
MemberExpression(obj, prop) ==
    [type |-> "MemberExpression", object |-> obj, property |-> prop]

FunctionDeclaration(line, name, params, body) ==
    [type |-> "FunctionDeclaration", line |-> line, name |-> name,
     params |-> params, body |-> body]
\* parent is "" where the parser leaves it null
ObjectDefinition(line, name, parent, properties) ==
    [type |-> "ObjectDefinition", line |-> line, name |-> name, parent |-> parent,
     properties |-> properties, operator |-> "="]
Assignment(line, name, op, value) ==
    [type |-> "Assignment", line |-> line, name |-> name, operator |-> op,
     value |-> value]
\* alternate is <<>> where the parser leaves it null
IfStatement(line, test, consequent, elifs, alternate) ==
    [type |-> "IfStatement", line |-> line, test |-> test, consequent |-> consequent,
     elifs |-> elifs, alternate |-> alternate]
Elif(test, body) == [test |-> test, body |-> body]
WhileStatement(line, test, body) ==
    [type |-> "WhileStatement", line |-> line, test |-> test, body |-> body]
ForStatement(line, iterator, start, end, body) ==
    [type |-> "ForStatement", line |-> line, iterator |-> iterator, start |-> start,
     end |-> end, body |-> body]
ReturnStatement(line, value) ==
    [type |-> "ReturnStatement", line |-> line, value |-> value]
BreakStatement(line) == [type |-> "BreakStatement", line |-> line]
ContinueStatement(line) == [type |-> "ContinueStatement", line |-> line]
ExpressionStatement(line, expr) ==
    [type |-> "ExpressionStatement", line |-> line, expression |-> expr]
\* moduleName is the sequence of the values of the tokens parseImport joins
ImportStatement(line, moduleName) ==
    [type |-> "ImportStatement", line |-> line, moduleName |-> moduleName]

\* The node the Parser of the bracket dialect (src/unnamed/part_000) builds for
\* `var[name] = value`; its nodes carry no line, the label is the model's.
VarDeclaration(line, name, value) ==
    [type |-> "VarDeclaration", line |-> line, name |-> name, value |-> value]
EvalCall(arg) == [type |-> "EvalCall", argument |-> arg]

-----------------------------------------------------------------------------
(* Tasks and frames.                                                        *)
(*                                                                         *)
(* A frame is one pending call: k is "block" (executeBlock), "stmt"        *)
(* (executeStatement) or "expr" (evaluate); node and scope are its         *)
(* arguments; pc is the await it is suspended at; i and acc are its local  *)
(* variables.  sig is a history field: the control-flow signal (return,    *)
(* break, continue) a statement executed inside this construct has raised  *)
(* for it, "" when none.                                                   *)
(*                                                                         *)
(* A task is one async execution: status is "run" (resumable), "timer"     *)
(* (suspended in setTimeout), "join" (suspended in Promise.all), "done"    *)
(* (resolved with val) or "error" (rejected with err).                     *)

\* No evaluateExpression call of the Map-based Interpreter is pending.
SquaredIdle == [state |-> "idle", node |-> Literal(Null), result |-> Null]

\* No Parser has been made.
ParserIdle == [state |-> "idle"]

\* No Map-based Interpreter has been made.
SqrdIdle == [state |-> "idle"]

\* The MESH module has been loaded: no key is held or marked, InitWindow has
\* not been called (ctx is null), the script is running.  pending and missed
\* are history: the keys marked pressed since script code last ran, and the
\* keys whose mark was cleared while pending.
MeshLoaded ==
    [ctx |-> FALSE, keys |-> {}, keysPressed |-> {}, keysReleased |-> {},
     pc |-> "script", pending |-> {}, missed |-> {}]

\* No Lexer is tokenizing.
LexerIdle == [lines |-> <<>>, i |-> 0, indentStack |-> <<>>, tokens |-> <<>>,
              state |-> "idle", pushes |-> 0, pops |-> 0]

Frame(k, node, scope) ==
    [k |-> k, node |-> node, scope |-> scope, pc |-> "start", i |-> 0,
     acc |-> Undefined, sig |-> ""]

\* executeBlock starts with res = null
BlockFrame(stmts, scope) ==
    [Frame("block", [type |-> "Block", body |-> stmts], scope) EXCEPT !.acc = Null]

NewTask(frame, parent) ==
    [stack |-> <<frame>>, status |-> "run", val |-> Undefined, err |-> "",
     parent |-> parent]

Top(tk) == tk.stack[Len(tk.stack)]

\* History: the event e is added to the events of the current run().
Record(e) == IF Len(trace) < MaxHistory THEN Append(trace, e) ELSE trace

\* The frame on top becomes f.
SetTop(tk, f) == [tk EXCEPT !.stack[Len(tk.stack)] = f]

\* The frame on top becomes f and awaits the call `callee`.
Await(tk, f, callee) == [tk EXCEPT !.stack = Append(SetTop(tk, f).stack, callee)]

\* The call on top returns v to the call that awaits it; the task resolves
\* with v when it was the outermost call.
Return(tk, v) ==
    [tk EXCEPT !.stack = SubSeq(@, 1, Len(@) - 1),
               !.val = v,
               !.status = IF Len(tk.stack) = 1 THEN "done" ELSE "run"]

\* An exception: no call of the interpreter catches it, every pending call of
\* the task is abandoned and the task rejects.
Throw(tk, msg) == [tk EXCEPT !.stack = <<>>, !.status = "error", !.err = msg]

Running(t) == tasks[t].status = "run" /\ tasks[t].stack # <<>>

At(t, k, type) ==
    /\ Running(t)
    /\ Top(tasks[t]).k = k
    /\ Top(tasks[t]).node.type = type

\* History: the statement that raised `kind` has returned; mark the blocks it
\* is nested in through if statements, up to and including the loop it is
\* for (break, continue), or every block and loop of the call (return).
RECURSIVE MarkSignal(_, _, _)
MarkSignal(stack, p, kind) ==
    IF p = 0 THEN stack
    ELSE LET f == stack[p] IN
         IF f.k = "block" THEN MarkSignal([stack EXCEPT ![p].sig = kind], p - 1, kind)
         ELSE IF f.k = "stmt" /\ f.node.type = "IfStatement"
              THEN MarkSignal(stack, p - 1, kind)
         ELSE IF f.k = "stmt" /\ f.node.type \in {"WhileStatement", "ForStatement"}
              THEN IF kind = "return"
                   THEN MarkSignal([stack EXCEPT ![p].sig = kind], p - 1, kind)
                   ELSE [stack EXCEPT ![p].sig = kind]
         ELSE stack

Signal(tk, kind) ==
    LET r == Return(tk, Undefined)
    IN  [r EXCEPT !.stack = MarkSignal(@, Len(@), kind)]

-----------------------------------------------------------------------------
(* Interpreter.executeBlock *)

\* executeBlock finding the marker through scope.get, parents included
BlockReturnsInherited(sc, s) == ScopeGet(sc, s, "__ret__") # Undefined

BlockReturns(sc, s) == ScopeHas(sc, s, "__ret__")

\* executeBlock without its `__continue__` test
BlockBreaksOnBreakOnly(sc, s) == ScopeHas(sc, s, "__break__")

BlockBreaks(sc, s) == ScopeHas(sc, s, "__break__") \/ ScopeHas(sc, s, "__continue__")

\* The next statement is run whatever the stop flag says
BlockNextUnstoppable(tk, f, res) ==
    IF f.i + 1 > Len(f.node.body) THEN Return(tk, res)
    ELSE Await(tk, [f EXCEPT !.pc = "after", !.i = f.i + 1, !.acc = res],
               Frame("stmt", f.node.body[f.i + 1], f.scope))

\* The head of the for-of loop: the loop ends after the last statement, the
\* stop flag is polled, the next statement is executed and awaited.
BlockNext(tk, f, res) ==
    IF f.i + 1 > Len(f.node.body) THEN Return(tk, res)
    ELSE IF stop THEN Return(tk, Null)
    ELSE Await(tk, [f EXCEPT !.pc = "after", !.i = f.i + 1, !.acc = res],
               Frame("stmt", f.node.body[f.i + 1], f.scope))

\* pc "start": entered, or resumed after the yield; pc "after": the awaited
\* statement has returned tk.val.
ExecuteBlock(t) ==
    /\ At(t, "block", "Block")
    /\ LET tk == tasks[t]
           f == Top(tk)
           after == f.pc = "after"
           res == IF after THEN tk.val ELSE f.acc
           ret == after /\ BlockReturns(scopes, f.scope)
           brk == after /\ ~ret /\ BlockBreaks(scopes, f.scope)
           counted == after /\ ~ret /\ ~brk
           cnt == IF counted THEN (opCounter + 1) % YieldEvery ELSE opCounter
           yield == counted /\ cnt = 0
           starts == ~ret /\ ~brk /\ ~yield /\ f.i < Len(f.node.body) /\ ~stop
       IN  /\ tasks' = [tasks EXCEPT ![t] =
                  IF ret THEN Return(tk, ScopeGet(scopes, f.scope, "__ret__"))
                  ELSE IF brk THEN Return(tk, res)
                  ELSE IF yield
                       THEN [SetTop(tk, [f EXCEPT !.pc = "start", !.acc = res])
                                EXCEPT !.status = "timer"]
                  ELSE BlockNext(tk, f, res)]
           /\ opCounter' = cnt
           /\ trace' = IF starts
                       THEN Record(<<"stmt", f.node.body[f.i + 1].line>>)
                       ELSE trace
           /\ unyielded' = IF after /\ f.sig = "" /\ unyielded <= YieldEvery
                           THEN unyielded + 1 ELSE unyielded
    /\ UNCHANGED <<scopes, stop, console, prog, runs, evalCache, compiled, lexer, squared, output, parser, sqrd, mesh>>

\* The callback of setTimeout(r, 0) runs: the awaiting call is resumable.
Timer(t) ==
    /\ tasks[t].status = "timer"
    /\ tasks' = [tasks EXCEPT ![t].status = "run"]
    /\ unyielded' = 0
    /\ UNCHANGED <<scopes, stop, opCounter, console, prog, runs, trace, evalCache, compiled, lexer, squared, output, parser, sqrd, mesh>>

-----------------------------------------------------------------------------
(* Interpreter.executeStatement, one action per case of its switch *)

\* A closure over a copy of the Scope made at the declaration
DeclareFunctionSnapshot(sc, s, node) ==
    ScopeSet(Append(sc, sc[s]), s, node.name, Closure(node, Len(sc) + 1))

\* scope.set(node.name, async (...args) => { ... }): the closure refers to the
\* Scope object `scope` itself.
DeclareFunction(sc, s, node) == ScopeSet(sc, s, node.name, Closure(node, s))

ExecFunctionDeclaration(t) ==
    /\ At(t, "stmt", "FunctionDeclaration")
    /\ LET f == Top(tasks[t])
       IN  /\ scopes' = DeclareFunction(scopes, f.scope, f.node)
           /\ tasks' = [tasks EXCEPT ![t] = Return(@, Undefined)]
    /\ UNCHANGED <<stop, opCounter, console, prog, runs, trace, evalCache, compiled, lexer, squared, output, unyielded, parser, sqrd, mesh>>

\* { ...p }: the own properties of an object, the elements of an array by index
Spread(p) ==
    IF p.t = "object" THEN p.v
    ELSE [k \in {ToString(n - 1) : n \in DOMAIN p.v} |->
             p.v[CHOOSE n \in DOMAIN p.v : ToString(n - 1) = k]]

\* An object that takes nothing from its parent
ObjectBaseEmpty(sc, s, node) == EmptyMap

\* let base = {}; if (node.parent) { p = scope.get(parent); if (p is an object) base = {...p} }
ObjectBase(sc, s, node) ==
    IF node.parent = "" THEN EmptyMap
    ELSE LET p == ScopeGet(sc, s, node.parent)
         IN  IF IsObjectLike(p) THEN Spread(p) ELSE EmptyMap

\* An object frame that can see the frame the definition is executed in
ObjectScopeChained(sc, s, node) ==
    [values |-> ObjectBase(sc, s, node), parent |-> s]

\* objScope = new Scope(null); Object.entries(base).forEach(([k, v]) => objScope.set(k, v))
ObjectScope(sc, s, node) ==
    [values |-> ObjectBase(sc, s, node), parent |-> 0]

\* pc "start": the object's Scope is created from base, the properties are run
\* in it; pc "body" (f.i is the object's Scope): the Scope's bindings become
\* the object bound to node.name.
ExecObjectDefinition(t) ==
    /\ At(t, "stmt", "ObjectDefinition")
    /\ LET tk == tasks[t]
           f == Top(tk)
           objScope == Len(scopes) + 1
       IN  IF f.pc = "start"
           THEN /\ scopes' = Append(scopes, ObjectScope(scopes, f.scope, f.node))
                /\ tasks' = [tasks EXCEPT ![t] =
                        Await(tk, [f EXCEPT !.pc = "body", !.i = objScope],
                              BlockFrame(f.node.properties, objScope))]
           ELSE /\ scopes' = ScopeSet(scopes, f.scope, f.node.name,
                                      Object(scopes[f.i].values))
                /\ tasks' = [tasks EXCEPT ![t] = Return(tk, Undefined)]
    /\ UNCHANGED <<stop, opCounter, console, prog, runs, trace, evalCache, compiled, lexer, squared, output, unyielded, parser, sqrd, mesh>>

\* scope.set(name, val) alone: every assignment binds in the innermost frame
AssignVarLocal(sc, s, name, val) == ScopeSet(sc, s, name, val)

\* if (!scope.assign(name, val)) scope.set(name, val)
AssignVar(sc, s, name, val) ==
    LET r == ScopeAssign(sc, s, name, val)
    IN  IF r.ok THEN r.scopes ELSE ScopeSet(sc, s, name, val)

\* The value an Assignment stores, given the value of its right-hand side.
AssignedValue(sc, s, node, val) ==
    IF node.operator = "=" THEN val
    ELSE LET g == ScopeGet(sc, s, node.name)
             current == IF Truthy(g) THEN g ELSE Num(0)
         IN  CompoundOp(node.operator, current, val)

ExecAssignment(t) ==
    /\ At(t, "stmt", "Assignment")
    /\ LET tk == tasks[t]
           f == Top(tk)
       IN  IF f.pc = "start"
           THEN /\ tasks' = [tasks EXCEPT ![t] =
                        Await(tk, [f EXCEPT !.pc = "value"],
                              Frame("expr", f.node.value, f.scope))]
                /\ UNCHANGED scopes
           ELSE /\ scopes' = AssignVar(scopes, f.scope, f.node.name,
                                       AssignedValue(scopes, f.scope, f.node, tk.val))
                /\ tasks' = [tasks EXCEPT ![t] = Return(tk, Undefined)]
    /\ UNCHANGED <<stop, opCounter, console, prog, runs, trace, evalCache, compiled, lexer, squared, output, unyielded, parser, sqrd, mesh>>

\* The tests of an if statement from the j-th elif on: the next test is
\* evaluated, or the alternate is run, or the statement returns.
IfNext(tk, f, j) ==
    IF j <= Len(f.node.elifs)
    THEN Await(tk, [f EXCEPT !.pc = "test", !.i = j],
               Frame("expr", f.node.elifs[j].test, f.scope))
    ELSE IF f.node.alternate # <<>>
    THEN Await(tk, [f EXCEPT !.pc = "block"], BlockFrame(f.node.alternate, f.scope))
    ELSE Return(tk, Undefined)

\* The statement goes on to the next test once a body has run
IfFallsThrough(tk, f) == IfNext(tk, f, f.i + 1)

\* return await this.executeBlock(...): the statement returns what the body
\* it has run returned.
IfDone(tk, f) == Return(tk, tk.val)

\* pc "test": the test (f.i = 0) or the f.i-th elif test has been evaluated;
\* pc "block": the chosen block has returned and its result is returned.
ExecIfStatement(t) ==
    /\ At(t, "stmt", "IfStatement")
    /\ LET tk == tasks[t]
           f == Top(tk)
           body == IF f.i = 0 THEN f.node.consequent ELSE f.node.elifs[f.i].body
       IN  tasks' = [tasks EXCEPT ![t] =
               IF f.pc = "start"
               THEN Await(tk, [f EXCEPT !.pc = "test"], Frame("expr", f.node.test, f.scope))
               ELSE IF f.pc = "test"
               THEN IF Truthy(tk.val)
                    THEN Await(tk, [f EXCEPT !.pc = "block"], BlockFrame(body, f.scope))
                    ELSE IfNext(tk, f, f.i + 1)
               ELSE IfDone(tk, f)]
    /\ UNCHANGED <<scopes, stop, opCounter, console, prog, runs, trace, evalCache, compiled, lexer, squared, output, unyielded, parser, sqrd, mesh>>

\* pc "start": the head of the loop (entered, or resumed after the yield that
\* ends each iteration); pc "test": the test has been evaluated; pc "body":
\* the body has returned.
\* The body is run whatever the test yields
WhileEntersAlways(v) == TRUE

\* while (... && await this.evaluate(node.test, scope)): whether the body is
\* run once the test has yielded v.
WhileEnters(v) == Truthy(v)

ExecWhileStatement(t) ==
    /\ At(t, "stmt", "WhileStatement")
    /\ LET tk == tasks[t]
           f == Top(tk)
           ret == ScopeHas(scopes, f.scope, "__ret__")
           brk == ~ret /\ ScopeHas(scopes, f.scope, "__break__")
           cont == ~ret /\ ~brk /\ ScopeHas(scopes, f.scope, "__continue__")
       IN  IF f.pc = "start"
           THEN /\ tasks' = [tasks EXCEPT ![t] =
                        IF stop THEN Return(tk, Undefined)
                        ELSE Await(tk, [f EXCEPT !.pc = "test"],
                                   Frame("expr", f.node.test, f.scope))]
                /\ trace' = IF stop THEN trace ELSE Record(<<"test", f.node.line>>)
                /\ UNCHANGED scopes
           ELSE IF f.pc = "test"
           THEN /\ tasks' = [tasks EXCEPT ![t] =
                        IF WhileEnters(tk.val)
                        THEN Await(tk, [f EXCEPT !.pc = "body"],
                                   BlockFrame(f.node.body, f.scope))
                        ELSE Return(tk, Undefined)]
                /\ UNCHANGED <<scopes, trace>>
           ELSE /\ scopes' = IF brk THEN ScopeDelete(scopes, f.scope, "__break__")
                             ELSE IF cont THEN ScopeDelete(scopes, f.scope, "__continue__")
                             ELSE scopes
                /\ tasks' = [tasks EXCEPT ![t] =
                        IF ret \/ brk THEN Return(tk, Undefined)
                        ELSE [SetTop(tk, [f EXCEPT !.pc = "start", !.sig = ""])
                                 EXCEPT !.status = "timer"]]
                /\ trace' = IF brk THEN Record(<<"broke", f.node.line>>)
                            ELSE trace
    /\ UNCHANGED <<stop, opCounter, console, prog, runs, evalCache, compiled, lexer, squared, output, unyielded, parser, sqrd, mesh>>

\* The loop leaves out the last value of the range
ForEntersBelowEnd(f, i) == f.acc.t = "num" /\ i < f.acc.v /\ ~stop

\* for (let i = start; i <= end; i++) from the test on, with i the next value:
\* the loop ends, or the stop flag breaks it, or the iterator is bound and the
\* body is run.  f.acc is end.
ForEnters(f, i) == f.acc.t = "num" /\ i <= f.acc.v /\ ~stop

ForNext(tk, f, i) ==
    IF ForEnters(f, i)
    THEN Await(tk, [f EXCEPT !.pc = "body", !.i = i,
                             !.sig = IF @ = "continue" THEN "" ELSE @],
               BlockFrame(f.node.body, f.scope))
    ELSE Return(tk, Undefined)

ForScopes(sc, f, i) ==
    IF ForEnters(f, i) THEN ScopeSet(sc, f.scope, f.node.iterator, Num(i)) ELSE sc

\* The loop steps from the value the iterator is bound to in the scope
ForStepFromScope(sc, f) ==
    LET v == ToNumber(ScopeGet(sc, f.scope, f.node.iterator))
    IN  IF v.t = "num" THEN v.v + 1 ELSE f.i + 1

\* i++ on the variable of the for statement of JavaScript: the next value
\* follows the previous one, whatever the script has bound the iterator to.
ForStep(sc, f) == f.i + 1

\* pc "from": start has been evaluated; pc "to": end has been evaluated; pc
\* "body": the body has returned; pc "resume": resumed after the yield.
ExecForStatement(t) ==
    /\ At(t, "stmt", "ForStatement")
    /\ LET tk == tasks[t]
           f == Top(tk)
           g == [f EXCEPT !.acc = ToNumber(tk.val)]
       IN  IF f.pc = "start"
           THEN /\ tasks' = [tasks EXCEPT ![t] =
                        Await(tk, [f EXCEPT !.pc = "from"],
                              Frame("expr", f.node.start, f.scope))]
                /\ UNCHANGED <<scopes, trace>>
           ELSE IF f.pc = "from"
           THEN /\ tasks' = [tasks EXCEPT ![t] =
                        Await(tk, [g EXCEPT !.pc = "to"],
                              Frame("expr", f.node.end, f.scope))]
                /\ UNCHANGED <<scopes, trace>>
           ELSE IF f.pc = "to"
           THEN \* f.acc is Number(start), g.acc is Number(end)
                IF f.acc.t = "num"
                THEN /\ tasks' = [tasks EXCEPT ![t] = ForNext(tk, g, f.acc.v)]
                     /\ scopes' = ForScopes(scopes, g, f.acc.v)
                     /\ trace' = IF ForEnters(g, f.acc.v)
                                 THEN Record(<<"iter", f.node.line>>) ELSE trace
                ELSE /\ tasks' = [tasks EXCEPT ![t] = Return(tk, Undefined)]
                     /\ UNCHANGED <<scopes, trace>>
           ELSE IF f.pc = "body" /\ ScopeHas(scopes, f.scope, "__ret__")
           THEN /\ tasks' = [tasks EXCEPT ![t] = Return(tk, Undefined)]
                /\ UNCHANGED <<scopes, trace>>
           ELSE IF f.pc = "body" /\ f.i % ForYieldEvery = 0
           THEN /\ tasks' = [tasks EXCEPT ![t] =
                        [SetTop(tk, [f EXCEPT !.pc = "resume"]) EXCEPT !.status = "timer"]]
                /\ UNCHANGED <<scopes, trace>>
           ELSE /\ tasks' = [tasks EXCEPT ![t] = ForNext(tk, f, ForStep(scopes, f))]
                /\ scopes' = ForScopes(scopes, f, ForStep(scopes, f))
                /\ trace' = IF ForEnters(f, ForStep(scopes, f))
                            THEN Record(<<"iter", f.node.line>>) ELSE trace
    /\ UNCHANGED <<stop, opCounter, console, prog, runs, evalCache, compiled, lexer, squared, output, unyielded, parser, sqrd, mesh>>

ExecReturnStatement(t) ==
    /\ At(t, "stmt", "ReturnStatement")
    /\ LET tk == tasks[t]
           f == Top(tk)
       IN  IF f.pc = "start"
           THEN /\ tasks' = [tasks EXCEPT ![t] =
                        Await(tk, [f EXCEPT !.pc = "value"],
                              Frame("expr", f.node.value, f.scope))]
                /\ UNCHANGED scopes
           ELSE /\ scopes' = ScopeSet(scopes, f.scope, "__ret__", tk.val)
                /\ tasks' = [tasks EXCEPT ![t] = Signal(tk, "return")]
    /\ UNCHANGED <<stop, opCounter, console, prog, runs, trace, evalCache, compiled, lexer, squared, output, unyielded, parser, sqrd, mesh>>

ExecBreakStatement(t) ==
    /\ At(t, "stmt", "BreakStatement")
    /\ scopes' = ScopeSet(scopes, Top(tasks[t]).scope, "__break__", Bool(TRUE))
    /\ tasks' = [tasks EXCEPT ![t] = Signal(@, "break")]
    /\ UNCHANGED <<stop, opCounter, console, prog, runs, trace, evalCache, compiled, lexer, squared, output, unyielded, parser, sqrd, mesh>>

ExecContinueStatement(t) ==
    /\ At(t, "stmt", "ContinueStatement")
    /\ scopes' = ScopeSet(scopes, Top(tasks[t]).scope, "__continue__", Bool(TRUE))
    /\ tasks' = [tasks EXCEPT ![t] = Signal(@, "continue")]
    /\ UNCHANGED <<stop, opCounter, console, prog, runs, trace, evalCache, compiled, lexer, squared, output, unyielded, parser, sqrd, mesh>>

ExecExpressionStatement(t) ==
    /\ At(t, "stmt", "ExpressionStatement")
    /\ LET tk == tasks[t]
           f == Top(tk)
       IN  tasks' = [tasks EXCEPT ![t] =
               IF f.pc = "start"
               THEN Await(tk, [f EXCEPT !.pc = "value"],
                          Frame("expr", f.node.expression, f.scope))
               ELSE Return(tk, tk.val)]
    /\ UNCHANGED <<scopes, stop, opCounter, console, prog, runs, trace, evalCache, compiled, lexer, squared, output, unyielded, parser, sqrd, mesh>>

\* The module name of the import programs, `a.b.c`, and what the host has
\* registered: the programs 1 and 4 run with a live object registered under
\* `a.b.c`, the programs 2 and 5 with a module registered under it, the
\* programs 3 and 6 with neither; a live object is registered under `a` in
\* all of them.
ABC == <<"a", ".", "b", ".", "c">>

LiveObject == Object("kind" :> Str("live"))
OtherObject == Object("kind" :> Str("other"))
DefaultExport == Object("kind" :> Str("default"))

\* deps.ModuleManager (src/unnamed/part_002) as the host has filled it before
\* run(): objects by registerObject, modules (name -> blob URL) by register
ModuleManager(d) ==
    [objects |-> IF d.n \in {1, 4} THEN (ABC :> LiveObject) @@ (<<"a">> :> OtherObject)
                 ELSE (<<"a">> :> OtherObject),
     modules |-> IF d.n \in {2, 5} THEN (ABC :> [blob |-> 1])
                 ELSE [k \in {} |-> [blob |-> 0]]]

\* ModuleManager.resolve(name)
Resolve(mm, name) ==
    IF name \in DOMAIN mm.objects THEN [type |-> "object", value |-> mm.objects[name]]
    ELSE IF name \in DOMAIN mm.modules THEN [type |-> "url", value |-> mm.modules[name]]
    ELSE [type |-> "url", value |-> [path |-> <<".", "/">> \o name]]

Rejected == [t |-> "rejected"]

\* await import(url): the namespace of the module the host loads, or a
\* rejection.  A registered blob is the module the host made, with a default
\* export; a relative path may be missing, and its module has no default.
Import(url) ==
    IF "blob" \in DOMAIN url THEN {Object("default" :> DefaultExport)}
    ELSE {Rejected, Object("f" :> Num(1))}

\* mod.default || mod
ModuleValue(mod) ==
    IF "default" \in DOMAIN mod.v /\ Truthy(mod.v["default"]) THEN mod.v["default"]
    ELSE mod

\* The module is bound under the last part of its name
ImportedNameLast(moduleName) == moduleName[Len(moduleName)]

\* node.moduleName.split('.')[0], for the names whose first part is one token
ImportedName(moduleName) ==
    IF moduleName = <<>> \/ moduleName[1] = "." THEN "" ELSE moduleName[1]

\* case 'ImportStatement', up to the await of the dynamic import
ExecImportStatement(t) ==
    /\ At(t, "stmt", "ImportStatement")
    /\ LET tk == tasks[t]
           f == Top(tk)
           res == Resolve(ModuleManager(prog), f.node.moduleName)
       IN  IF res.type = "object"
           THEN /\ scopes' = ScopeSet(scopes, f.scope, ImportedName(f.node.moduleName),
                                      res.value)
                /\ tasks' = [tasks EXCEPT ![t] = Return(tk, Undefined)]
           ELSE /\ tasks' = [tasks EXCEPT ![t] =
                        [SetTop(tk, [f EXCEPT !.pc = "load"]) EXCEPT !.status = "load"]]
                /\ UNCHANGED scopes
    /\ UNCHANGED <<stop, opCounter, console, prog, runs, trace, evalCache, compiled, lexer, squared, output, unyielded, parser, sqrd, mesh>>

\* The dynamic import settles: the statement binds the module, or the
\* rejection is thrown.
ImportLoaded(t) ==
    /\ tasks[t].status = "load"
    /\ LET tk == tasks[t]
           f == Top(tk)
           res == Resolve(ModuleManager(prog), f.node.moduleName)
       IN  \E mod \in Import(res.value) :
               IF mod.t = "rejected"
               THEN /\ tasks' = [tasks EXCEPT ![t] =
                            Throw(tk, "Failed to fetch dynamically imported module")]
                    /\ UNCHANGED scopes
               ELSE /\ scopes' = ScopeSet(scopes, f.scope,
                                          ImportedName(f.node.moduleName), ModuleValue(mod))
                    /\ tasks' = [tasks EXCEPT ![t] = Return(tk, Undefined)]
    /\ UNCHANGED <<stop, opCounter, console, prog, runs, trace, evalCache, compiled, lexer, squared, output, unyielded, parser, sqrd, mesh>>

\* A node type the switch of executeStatement has no case for
\* (VarDeclaration): the function ends without a return statement.
ExecOther(t) ==
    /\ Running(t)
    /\ Top(tasks[t]).k = "stmt"
    /\ Top(tasks[t]).node.type \notin
           {"FunctionDeclaration", "ObjectDefinition", "Assignment", "IfStatement",
            "WhileStatement", "ForStatement", "ReturnStatement", "BreakStatement",
            "ContinueStatement", "ExpressionStatement", "ImportStatement"}
    /\ tasks' = [tasks EXCEPT ![t] = Return(@, Undefined)]
    /\ UNCHANGED <<scopes, stop, opCounter, console, prog, runs, trace, evalCache, compiled, lexer, squared, output, unyielded, parser, sqrd, mesh>>

-----------------------------------------------------------------------------
(* Interpreter.evaluate, one action per case of its switch *)

EvalLiteral(t) ==
    /\ At(t, "expr", "Literal")
    /\ tasks' = [tasks EXCEPT ![t] = Return(@, Top(@).node.value)]
    /\ UNCHANGED <<scopes, stop, opCounter, console, prog, runs, trace, evalCache, compiled, lexer, squared, output, unyielded, parser, sqrd, mesh>>

\* v = scope.get(name); if (v === undefined) throw; return v
EvalIdentifier(t) ==
    /\ At(t, "expr", "Identifier")
    /\ LET tk == tasks[t]
           f == Top(tk)
           v == ScopeGet(scopes, f.scope, f.node.value)
       IN  tasks' = [tasks EXCEPT ![t] =
               IF v.t = "undefined" THEN Throw(tk, "Undefined: " \o f.node.value)
               ELSE Return(tk, v)]
    /\ UNCHANGED <<scopes, stop, opCounter, console, prog, runs, trace, evalCache, compiled, lexer, squared, output, unyielded, parser, sqrd, mesh>>

\* Both operands of every operator are evaluated
EvaluatesRightAlways(op, l) == TRUE

\* Whether the right operand is evaluated once the left one has the value l.
EvaluatesRight(op, l) ==
    CASE op = "and" -> Truthy(l)
      [] op = "or" -> ~Truthy(l)
      [] OTHER -> TRUE

\* pc "left": the left operand has been evaluated; pc "right": the right
\* operand of an arithmetic or comparison operator has been evaluated (f.acc
\* is l); pc "pass": the right operand of and / or has been evaluated and is
\* the result.
EvalBinaryExpression(t) ==
    /\ At(t, "expr", "BinaryExpression")
    /\ LET tk == tasks[t]
           f == Top(tk)
           logical == f.node.operator \in {"and", "or"}
       IN  tasks' = [tasks EXCEPT ![t] =
               IF f.pc = "start"
               THEN Await(tk, [f EXCEPT !.pc = "left"], Frame("expr", f.node.left, f.scope))
               ELSE IF f.pc = "left"
               THEN IF EvaluatesRight(f.node.operator, tk.val)
                    THEN Await(tk, [f EXCEPT !.pc = IF logical THEN "pass" ELSE "right",
                                             !.acc = tk.val],
                               Frame("expr", f.node.right, f.scope))
                    ELSE Return(tk, tk.val)
               ELSE IF f.pc = "right"
               THEN Return(tk, BinaryOp(f.node.operator, f.acc, tk.val))
               ELSE Return(tk, tk.val)]
    /\ UNCHANGED <<scopes, stop, opCounter, console, prog, runs, trace, evalCache, compiled, lexer, squared, output, unyielded, parser, sqrd, mesh>>

\* obj[property] of a value that is neither null nor undefined: an own
\* property of an object, the length of an array or string (inherited
\* methods are not modelled).
GetMember(obj, property) ==
    IF obj.t = "object"
    THEN IF property \in DOMAIN obj.v THEN obj.v[property] ELSE Undefined
    ELSE IF obj.t \in {"array", "str"} /\ property = "length" THEN Num(Len(obj.v))
    ELSE Undefined

EvalMemberExpression(t) ==
    /\ At(t, "expr", "MemberExpression")
    /\ LET tk == tasks[t]
           f == Top(tk)
       IN  tasks' = [tasks EXCEPT ![t] =
               IF f.pc = "start"
               THEN Await(tk, [f EXCEPT !.pc = "object"],
                          Frame("expr", f.node.object, f.scope))
               ELSE IF tk.val.t \in {"undefined", "null"}
               THEN Throw(tk, "Execution Error: Cannot access property '"
                              \o f.node.property \o "' of " \o ToStr(tk.val) \o ".")
               ELSE Return(tk, GetMember(tk.val, f.node.property))]
    /\ UNCHANGED <<scopes, stop, opCounter, console, prog, runs, trace, evalCache, compiled, lexer, squared, output, unyielded, parser, sqrd, mesh>>

-----------------------------------------------------------------------------
(* Interpreter.evaluate, EvalCall *)

\* The source texts the programs of the model hand to eval.  "\n" separates
\* the lines of a text.
EvalSources ==
    {"1 + 2", "y + x", "", "2", "q = 7", "m = 1\nm + 1", "p = p + 1\nloc = p", "1 +"}

\* new Parser(new Lexer(code).tokenize()).parse() throws: in "1 +" the
\* NEWLINE token stands where parsePrimary expects an operand.
ParseFails(code) == code = "1 +"

ParseError(code) ==
    "Unexpected token at position 2: {\"type\":\"NEWLINE\",\"line\":1}"

\* new Parser(new Lexer(code).tokenize()).parse().body of a source text of
\* EvalSources: one statement per non-blank line.  The statements of a text
\* are labelled 101, 102, .. here, where the Lexer numbers them 1, 2, ..
Parse(code) ==
    CASE code = "1 + 2" ->
            <<ExpressionStatement(101, BinaryExpression(Literal(Num(1)), "+", Literal(Num(2))))>>
      [] code = "y + x" ->
            <<ExpressionStatement(101, BinaryExpression(Identifier("y"), "+", Identifier("x")))>>
      [] code = "" -> <<>>
      [] code = "2" -> <<ExpressionStatement(101, Literal(Num(2)))>>
      [] code = "q = 7" -> <<Assignment(101, "q", "=", Literal(Num(7)))>>
      [] code = "m = 1\nm + 1" ->
            <<Assignment(101, "m", "=", Literal(Num(1))),
              ExpressionStatement(102, BinaryExpression(Identifier("m"), "+", Literal(Num(1))))>>
      [] code = "p = p + 1\nloc = p" ->
            <<Assignment(101, "p", "=", BinaryExpression(Identifier("p"), "+", Literal(Num(1)))),
              Assignment(102, "loc", "=", Identifier("p"))>>

\* Every eval runs the Lexer and the Parser
CacheMissAlways(cache, code) == TRUE

\* !this.evalCache.has(code)
CacheMiss(cache, code) == code \notin DOMAIN cache

\* The eval'd code runs in the global scope
EvalScopeGlobal(f) == 1

\* The scope the eval'd code runs in: the one evaluate was called with.
EvalScope(f) == f.scope

\* ast.body.length === 1 && ast.body[0].type === 'ExpressionStatement'
IsSingleExpression(body) == Len(body) = 1 /\ body[1].type = "ExpressionStatement"

\* pc "start": the argument is evaluated; pc "argument": it has been, its
\* string is compiled unless the cache has it, and the Program is evaluated
\* or executed; pc "value": that has returned.
EvalEvalCall(t) ==
    /\ At(t, "expr", "EvalCall")
    /\ LET tk == tasks[t]
           f == Top(tk)
           code == ToStr(tk.val)
           miss == f.pc = "argument" /\ CacheMiss(evalCache, code)
           fails == miss /\ ParseFails(code)
           cache == IF miss /\ ~fails THEN (code :> Parse(code)) @@ evalCache
                    ELSE evalCache
           body == cache[code]
       IN  /\ tasks' = [tasks EXCEPT ![t] =
                  IF f.pc = "start"
                  THEN Await(tk, [f EXCEPT !.pc = "argument"],
                             Frame("expr", f.node.argument, f.scope))
                  ELSE IF f.pc = "argument"
                  THEN IF fails THEN Throw(tk, ParseError(code))
                       ELSE Await(tk, [f EXCEPT !.pc = "value", !.acc = Str(code)],
                                  IF IsSingleExpression(body)
                                  THEN Frame("expr", body[1].expression, EvalScope(f))
                                  ELSE BlockFrame(body, EvalScope(f)))
                  ELSE Return(tk, tk.val)]
           /\ evalCache' = cache
           /\ compiled' = IF miss THEN Append(compiled, code) ELSE compiled
    /\ UNCHANGED <<scopes, stop, opCounter, console, prog, runs, trace, lexer, squared, output, unyielded, parser, sqrd, mesh>>

\* A node type the switch of evaluate has no case for (ArrayLiteral): the
\* function ends without a return statement.
EvalOther(t) ==
    /\ Running(t)
    /\ Top(tasks[t]).k = "expr"
    /\ Top(tasks[t]).node.type \notin
           {"Literal", "Identifier", "BinaryExpression", "CallExpression",
            "MemberExpression", "EvalCall"}
    /\ tasks' = [tasks EXCEPT ![t] = Return(@, Undefined)]
    /\ UNCHANGED <<scopes, stop, opCounter, console, prog, runs, trace, evalCache, compiled, lexer, squared, output, unyielded, parser, sqrd, mesh>>

\* pc "start": the callee (or, for a member callee, its object) is evaluated;
\* pc "callee" / "context": it has been evaluated, and every argument is
\* evaluated in a task of its own: Promise.all(arguments.map(evaluate)), f.i
\* being the number of tasks before them; pc "call": the function called has
\* returned (f.i is the Scope of the call).
EvalCallExpression(t) ==
    /\ At(t, "expr", "CallExpression")
    /\ Top(tasks[t]).pc # "args"
    /\ LET tk == tasks[t]
           f == Top(tk)
           member == f.node.callee.type = "MemberExpression"
           fn == IF f.pc = "callee" THEN tk.val
                 ELSE IF IsObjectLike(tk.val)
                 THEN GetMember(tk.val, f.node.callee.property)
                 ELSE Undefined
           context == IF f.pc = "context" THEN tk.val ELSE Null
           args == [k \in DOMAIN f.node.arguments |->
                       NewTask(Frame("expr", f.node.arguments[k], f.scope), t)]
       IN  tasks' =
               IF f.pc = "start"
               THEN [tasks EXCEPT ![t] =
                        IF member
                        THEN Await(tk, [f EXCEPT !.pc = "context"],
                                   Frame("expr", f.node.callee.object, f.scope))
                        ELSE Await(tk, [f EXCEPT !.pc = "callee"],
                                   Frame("expr", f.node.callee, f.scope))]
               ELSE IF f.pc \in {"callee", "context"}
               THEN [tasks EXCEPT ![t] =
                        [SetTop(tk, [f EXCEPT !.pc = "args", !.i = Len(tasks),
                                              !.acc = [fn |-> fn, context |-> context]])
                            EXCEPT !.status = "join"]] \o args
               ELSE [tasks EXCEPT ![t] = Return(tk, tk.val)]
    /\ UNCHANGED <<scopes, stop, opCounter, console, prog, runs, trace, evalCache, compiled, lexer, squared, output, unyielded, parser, sqrd, mesh>>

\* The tasks of the arguments of the call f of task t.
ArgTasks(f) == {f.i + k : k \in DOMAIN f.node.arguments}

\* Promise.all has settled: one argument has rejected, or all have resolved.
ArgsRejected(f) == \E k \in ArgTasks(f) : tasks[k].status = "error"
ArgsResolved(f) == \A k \in ArgTasks(f) : tasks[k].status = "done"

\* fnScope = new Scope(scope); params.forEach((p, i) => fnScope.set(p, args[i]))
CallScope(fn, args) ==
    LET params == fn.node.params
        last(name) == CHOOSE i \in DOMAIN params :
                          /\ params[i] = name
                          /\ \A j \in DOMAIN params : params[j] = name => j <= i
    IN  [values |-> [name \in {params[i] : i \in DOMAIN params} |->
                        IF last(name) <= Len(args) THEN args[last(name)] ELSE Undefined],
         parent |-> fn.scope]

\* The name a call is recorded under in the history.
CalleeName(fn) == IF fn.t = "function" THEN fn.node.name ELSE fn.v

\* After `await Promise.all(...)`: the exception of a rejected argument
\* propagates; a target that is not a function throws; a script function runs
\* its body in a new Scope whose parent is the closure's Scope; the print
\* builtin hands its arguments to console.log; activateCanvas does nothing.
EvalCallApply(t) ==
    /\ tasks[t].status = "join"
    /\ LET tk == [tasks[t] EXCEPT !.status = "run"]
           f == Top(tk)
           fn == f.acc.fn
           args == [k \in DOMAIN f.node.arguments |-> tasks[f.i + k].val]
           rejected == ArgsRejected(f)
           calls == ~rejected /\ IsCallable(fn)
           fnScope == Len(scopes) + 1
       IN  /\ IF rejected THEN TRUE ELSE ArgsResolved(f)
           /\ tasks' = [tasks EXCEPT ![t] =
                  IF rejected
                  THEN Throw(tk, tasks[CHOOSE k \in ArgTasks(f) :
                                           tasks[k].status = "error"].err)
                  ELSE IF ~IsCallable(fn)
                  THEN Throw(tk, "Execution Error: Call target is not a function.")
                  ELSE IF fn.t = "function"
                  THEN Await(tk, [f EXCEPT !.pc = "call", !.i = fnScope],
                             BlockFrame(fn.node.body, fnScope))
                  ELSE Return(tk, Undefined)]
           /\ scopes' = IF calls /\ fn.t = "function"
                        THEN Append(scopes, CallScope(fn, args)) ELSE scopes
           /\ console' = IF calls /\ fn.t = "builtin" /\ fn.v = "print"
                         THEN Append(console, args) ELSE console
           /\ trace' = IF calls THEN Record(<<"call", CalleeName(fn)>>) ELSE trace
    /\ UNCHANGED <<stop, opCounter, prog, runs, evalCache, compiled, lexer, squared, output, unyielded, parser, sqrd, mesh>>

-----------------------------------------------------------------------------
(* Interpreter.stringify *)

\* JSON.stringify of a primitive or of an object of primitives.  The members
\* are written in insertion order, which a model object does not keep: the
\* objects stringified here have one property.
RECURSIVE Json(_)
Json(v) ==
    CASE v.t = "str" -> "\"" \o v.v \o "\""
      [] v.t = "object" ->
            IF DOMAIN v.v = {} THEN "{}"
            ELSE LET k == CHOOSE k \in DOMAIN v.v : TRUE
                     rest == Json(Object([j \in (DOMAIN v.v) \ {k} |-> v.v[j]]))
                     member == "\"" \o k \o "\":" \o Json(v.v[k])
                 IN  IF rest = "{}" THEN "{" \o member \o "}"
                     ELSE "{" \o member \o "," \o SubSeq(rest, 2, Len(rest))
      [] v.t \in {"undefined", "function", "builtin"} -> "null"
      [] OTHER -> ToStr(v)

\* `[${v.map(i => this.stringify(i)).join(', ')}]`, JSON.stringify(v), String(v)
RECURSIVE Stringify(_)
Stringify(v) ==
    LET Join(es) == IF Len(es) = 1 THEN Stringify(es[1])
                    ELSE Stringify(es[1]) \o ", " \o Stringify(Array(Tail(es)))
    IN  CASE v.t = "null" -> "null"
          [] v.t = "array" ->
                IF v.v = <<>> THEN "[]"
                ELSE LET rest == Stringify(Array(Tail(v.v)))
                     IN  IF rest = "[]" THEN "[" \o Stringify(Head(v.v)) \o "]"
                         ELSE "[" \o Stringify(Head(v.v)) \o ", " \o SubSeq(rest, 2, Len(rest))
          [] v.t = "object" -> Json(v)
          [] OTHER -> ToStr(v)

-----------------------------------------------------------------------------
(* The programs handed to run(): the ASTs the Parser builds for the source  *)
(* texts shown.  A program is named by a descriptor [fam, n, body].  The    *)
(* number in front of a statement is its node.line, which the model uses    *)
(* only as the label of the statement in the history; the labels of a       *)
(* program are distinct and need not be consecutive.                        *)

Desc(fam, n, body) == [fam |-> fam, n |-> n, body |-> body]

Lit(n) == Literal(Num(n))
Id(name) == Identifier(name)
Call0(name) == CallExpression(Identifier(name), <<>>)
Call1(name, arg) == CallExpression(Identifier(name), <<arg>>)

AssignOps == <<"=", "+=", "-=", "*=", "/=">>

\*  1: g = 4
\*  2: function f(a)
\*  3:     g <op> a
\*  4:     a = 10
\*  5:     loc = 5
\*  6:     function h()
\*  7:         loc = 6
\*  8:         g = g * 2
\*  9:         n = 1
\* 10:     h()
\* 11:     return = loc
\* 12: r = f(2)
\* 13: print(g, r)
AssignProgram(n) == <<
    Assignment(1, "g", "=", Lit(4)),
    FunctionDeclaration(2, "f", <<"a">>, <<
        Assignment(3, "g", AssignOps[n], Id("a")),
        Assignment(4, "a", "=", Lit(10)),
        Assignment(5, "loc", "=", Lit(5)),
        FunctionDeclaration(6, "h", <<>>, <<
            Assignment(7, "loc", "=", Lit(6)),
            Assignment(8, "g", "=", BinaryExpression(Id("g"), "*", Lit(2))),
            Assignment(9, "n", "=", Lit(1)) >>),
        ExpressionStatement(10, Call0("h")),
        ReturnStatement(11, Id("loc")) >>),
    Assignment(12, "r", "=", Call1("f", Lit(2))),
    ExpressionStatement(13, CallExpression(Id("print"), <<Id("g"), Id("r")>>)) >>

\* n = 1:                    n = 2:                      n = 3:
\*  1: v = 1                  1: function mk()            1: v = 1
\*  2: function f()           2:     c = 0                2: function f()
\*  3:     return = v         3:     function inc()       3:     return = v
\*  4: v = 2                  4:         c = c + 1        4: function set(x)
\*  5: a = f()                5:         return = c       5:     v = x
\*  6: v = 3                  6:     return = inc         6: set(5)
\*  7: b = f()                7: k = mk()                 7: a = f()
\*                            8: a = k()
\*                            9: b = k()
ClosureProgram(n) ==
    CASE n = 1 -> <<
            Assignment(1, "v", "=", Lit(1)),
            FunctionDeclaration(2, "f", <<>>, <<ReturnStatement(3, Id("v"))>>),
            Assignment(4, "v", "=", Lit(2)),
            Assignment(5, "a", "=", Call0("f")),
            Assignment(6, "v", "=", Lit(3)),
            Assignment(7, "b", "=", Call0("f")) >>
      [] n = 2 -> <<
            FunctionDeclaration(1, "mk", <<>>, <<
                Assignment(2, "c", "=", Lit(0)),
                FunctionDeclaration(3, "inc", <<>>, <<
                    Assignment(4, "c", "=", BinaryExpression(Id("c"), "+", Lit(1))),
                    ReturnStatement(5, Id("c")) >>),
                ReturnStatement(6, Id("inc")) >>),
            Assignment(7, "k", "=", Call0("mk")),
            Assignment(8, "a", "=", Call0("k")),
            Assignment(9, "b", "=", Call0("k")) >>
      [] OTHER -> <<
            Assignment(1, "v", "=", Lit(1)),
            FunctionDeclaration(2, "f", <<>>, <<ReturnStatement(3, Id("v"))>>),
            FunctionDeclaration(4, "set", <<"x">>, <<Assignment(5, "v", "=", Id("x"))>>),
            ExpressionStatement(6, Call1("set", Lit(5))),
            Assignment(7, "a", "=", Call0("f")) >>

\* The bodies of function f in
\*  1: function g()
\*  2:     return = 4
\*  3: function f()
\*         <body, lines 10..>
\*  4: r = f()
\*  5: after = 1
FunctionBodies == <<
    \* x = 1 / return = 7 / x = 2
    << Assignment(10, "x", "=", Lit(1)), ReturnStatement(11, Lit(7)),
       Assignment(12, "x", "=", Lit(2)) >>,
    \* 1 + 2
    << ExpressionStatement(10, BinaryExpression(Lit(1), "+", Lit(2))) >>,
    \* x = 1
    << Assignment(10, "x", "=", Lit(1)) >>,
    \* for k = 1 to 2 / x = k
    << ForStatement(10, "k", Lit(1), Lit(2), <<Assignment(11, "x", "=", Id("k"))>>) >>,
    \* if True / if True / return = 5 // x = 9 /// x = 8
    << IfStatement(10, Literal(Bool(TRUE)), <<
           IfStatement(11, Literal(Bool(TRUE)), <<ReturnStatement(12, Lit(5))>>, <<>>, <<>>),
           Assignment(13, "x", "=", Lit(9)) >>, <<>>, <<>>),
       Assignment(14, "x", "=", Lit(8)) >>,
    \* while True / for k = 1 to 3 / if k == 2 / return = k /// x = k // x = 7 / x = 6
    << WhileStatement(10, Literal(Bool(TRUE)), <<
           ForStatement(11, "k", Lit(1), Lit(3), <<
               IfStatement(12, BinaryExpression(Id("k"), "==", Lit(2)),
                           <<ReturnStatement(13, Id("k"))>>, <<>>, <<>>),
               Assignment(14, "x", "=", Id("k")) >>),
           Assignment(15, "x", "=", Lit(7)) >>),
       Assignment(16, "x", "=", Lit(6)) >>,
    \* g()
    << ExpressionStatement(10, Call0("g")) >>,
    \* if False / x = 1
    << IfStatement(10, Literal(Bool(FALSE)), <<Assignment(11, "x", "=", Lit(1))>>,
                   <<>>, <<>>) >>,
    \* break / x = 1
    << BreakStatement(10), Assignment(11, "x", "=", Lit(1)) >>,
    \* if False / x = 1 / elif True / continue / else / x = 2 // x = 3
    << IfStatement(10, Literal(Bool(FALSE)), <<Assignment(11, "x", "=", Lit(1))>>,
                   <<Elif(Literal(Bool(TRUE)), <<ContinueStatement(12)>>)>>,
                   <<Assignment(13, "x", "=", Lit(2))>>),
       Assignment(14, "x", "=", Lit(3)) >> >>

FunctionProgram(n) == <<
    FunctionDeclaration(1, "g", <<>>, <<ReturnStatement(2, Lit(4))>>),
    FunctionDeclaration(3, "f", <<>>, FunctionBodies[n]),
    Assignment(4, "r", "=", Call0("f")),
    Assignment(5, "after", "=", Lit(1)) >>

\* n = 1: f(1), the body reads b      n = 2: f(1), the body does not read b
\* n = 3: f(1, 2, 3)                  n = 4: f(1), the body assigns b first
\*  1: function f(a, b)
\*  2:     seen = a
\*  3:     b = 5            (n = 4 only)
\*  4:     got = b          (n # 2)
\*  5:     return = 1
\*  6: r = f(...)
\*  7: after = 1
ParamProgram(n) == <<
    FunctionDeclaration(1, "f", <<"a", "b">>,
        <<Assignment(2, "seen", "=", Id("a"))>>
        \o (IF n = 4 THEN <<Assignment(3, "b", "=", Lit(5))>> ELSE <<>>)
        \o (IF n # 2 THEN <<Assignment(4, "got", "=", Id("b"))>> ELSE <<>>)
        \o <<ReturnStatement(5, Lit(1))>>),
    Assignment(6, "r", "=",
        CallExpression(Id("f"),
            IF n = 3 THEN <<Lit(1), Lit(2), Lit(3)>> ELSE <<Lit(1)>>)),
    Assignment(7, "after", "=", Lit(1)) >>

\* The left operands of the logical programs, the operator and the form of
\* each: program n has left operand LeftValues[LeftOf(n)], operator `and` for
\* odd n and `or` for even n, and the left operand written as a literal in
\* the first half, as the call g() in the second.
LeftValues == <<Bool(FALSE), Bool(TRUE), Num(0), Num(1), Str(""), Str("a")>>
LogicCount == 4 * Len(LeftValues)
LogicOp(n) == IF n % 2 = 1 THEN "and" ELSE "or"
LogicLeft(n) == LeftValues[(((n - 1) \div 2) % Len(LeftValues)) + 1]
LogicViaCall(n) == n > 2 * Len(LeftValues)

\*  1: m = 0
\*  2: n = 0
\*  3: function g()
\*  4:     m += 1
\*  5:     return = <left>
\*  6: function f()
\*  7:     n += 1
\*  8:     return = 7
\*  9: r = <left> <op> f()        or      r = g() <op> f()
LogicProgram(n) == <<
    Assignment(1, "m", "=", Lit(0)),
    Assignment(2, "n", "=", Lit(0)),
    FunctionDeclaration(3, "g", <<>>, <<
        Assignment(4, "m", "+=", Lit(1)),
        ReturnStatement(5, Literal(LogicLeft(n))) >>),
    FunctionDeclaration(6, "f", <<>>, <<
        Assignment(7, "n", "+=", Lit(1)),
        ReturnStatement(8, Lit(7)) >>),
    Assignment(9, "r", "=",
        BinaryExpression(IF LogicViaCall(n) THEN Call0("g") ELSE Literal(LogicLeft(n)),
                         LogicOp(n), Call0("f"))) >>

\*  1: #Base# = [
\*  2:     x = <n>
\*  3:     y = 2
\*     ]
\*  4: Child #Base# = [
\*  5:     z = x + 1
\*  6:     y = 9
\*     ]
\*  7: #Base# = [
\*  8:     x = <n + 5>
\*     ]
\*  9: p1 = Child.x
\* 10: Base = 0
\* 11: p2 = Child.x
\* 12: Other #Base# = [
\* 13:     w = 1
\*     ]
\* 14: arr = [1, 2]
ObjectProgram(n) == <<
    ObjectDefinition(1, "Base", "", <<
        Assignment(2, "x", "=", Lit(n)),
        Assignment(3, "y", "=", Lit(2)) >>),
    ObjectDefinition(4, "Child", "Base", <<
        Assignment(5, "z", "=", BinaryExpression(Id("x"), "+", Lit(1))),
        Assignment(6, "y", "=", Lit(9)) >>),
    ObjectDefinition(7, "Base", "", <<Assignment(8, "x", "=", Lit(n + 5))>>),
    Assignment(9, "p1", "=", MemberExpression(Id("Child"), "x")),
    Assignment(10, "Base", "=", Lit(0)),
    Assignment(11, "p2", "=", MemberExpression(Id("Child"), "x")),
    ObjectDefinition(12, "Other", "Base", <<Assignment(13, "w", "=", Lit(1))>>),
    Assignment(14, "arr", "=", ArrayLiteral(<<Lit(1), Lit(2)>>)) >>

\*  1: k = 5
\*  2: #Base# = [
\*  3:     ox = 1
\*     ]
\*  4: Obj #Base# = [
\*  5:     k = ox + 1
\*  6:     ox += 10
\*     ]
\*  7: r = Obj.k
\*  8: #Bad# = [
\*  9:     a = k
\*     ]
\* 10: after = 1
IsolationProgram == <<
    Assignment(1, "k", "=", Lit(5)),
    ObjectDefinition(2, "Base", "", <<Assignment(3, "ox", "=", Lit(1))>>),
    ObjectDefinition(4, "Obj", "Base", <<
        Assignment(5, "k", "=", BinaryExpression(Id("ox"), "+", Lit(1))),
        Assignment(6, "ox", "+=", Lit(10)) >>),
    Assignment(7, "r", "=", MemberExpression(Id("Obj"), "k")),
    ObjectDefinition(8, "Bad", "", <<Assignment(9, "a", "=", Id("k"))>>),
    Assignment(10, "after", "=", Lit(1)) >>

EvalOf(text) == EvalCall(Literal(Str(text)))

\* n = 1                          n = 2
\*  1: x = 4                       1: r = eval("")
\*  2: a = eval("1 + 2")           2: s = eval("m = 1\nm + 1")
\*  3: b = eval("1 + 2")           3: t = eval("q = 7")
\*  4: function f(y)               4: function g(p)
\*  5:     return = eval("y + x")  5:     eval("p = p + 1\nloc = p")
\*  6: c = f(10)                   6:     return = loc + p
\*  7: x = 5                       7: z = g(1)
\*  8: d = f(10)                   8: v = eval(s)
\*                                 9: w = eval("1 +")
\*                                10: after = 1
EvalProgram(n) ==
    IF n = 1
    THEN << Assignment(1, "x", "=", Lit(4)),
            Assignment(2, "a", "=", EvalOf("1 + 2")),
            Assignment(3, "b", "=", EvalOf("1 + 2")),
            FunctionDeclaration(4, "f", <<"y">>, <<ReturnStatement(5, EvalOf("y + x"))>>),
            Assignment(6, "c", "=", Call1("f", Lit(10))),
            Assignment(7, "x", "=", Lit(5)),
            Assignment(8, "d", "=", Call1("f", Lit(10))) >>
    ELSE << Assignment(1, "r", "=", EvalOf("")),
            Assignment(2, "s", "=", EvalOf("m = 1\nm + 1")),
            Assignment(3, "t", "=", EvalOf("q = 7")),
            FunctionDeclaration(4, "g", <<"p">>, <<
                ExpressionStatement(5, EvalOf("p = p + 1\nloc = p")),
                ReturnStatement(6, BinaryExpression(Id("loc"), "+", Id("p"))) >>),
            Assignment(7, "z", "=", Call1("g", Lit(1))),
            Assignment(8, "v", "=", EvalCall(Id("s"))),
            Assignment(9, "w", "=", EvalOf("1 +")),
            Assignment(10, "after", "=", Lit(1)) >>

\* The bounds a and b of the range programs.
RangeBounds == << <<1, 3>>, <<2, 2>>, <<3, 1>>, <<2, 3>> >>

\* 1: n = 0
\* 2: for i = a to b
\* 3:     n = n * 10 + i
\* 4: done = 1
RangeProgram(n) == <<
    Assignment(1, "n", "=", Lit(0)),
    ForStatement(2, "i", Lit(RangeBounds[n][1]), Lit(RangeBounds[n][2]), <<
        Assignment(3, "n", "=",
            BinaryExpression(BinaryExpression(Id("n"), "*", Lit(10)), "+", Id("i"))) >>),
    Assignment(4, "done", "=", Lit(1)) >>

\* 1: i = 0
\* 2: while i < 3
\* 3:     print(i)
\* 4:     i += 1
\* 5: done = 1
CountProgram == <<
    Assignment(1, "i", "=", Lit(0)),
    WhileStatement(2, BinaryExpression(Id("i"), "<", Lit(3)), <<
        ExpressionStatement(3, Call1("print", Id("i"))),
        Assignment(4, "i", "+=", Lit(1)) >>),
    Assignment(5, "done", "=", Lit(1)) >>

\* n = 1                      n = 2               n = 3
\* 1: x = 1                   1: z = x + y        1: v = y + y
\* 2: function f()            2: x = x + 10       2: print(v, x)
\* 3:     return = x + 1      3: w = f()
\* 4: y = f()
\*
\* n = 4                      n = 5
\* 1: t = 1                   1: p = 1
\* 2: return = 5              2: q = 2
\* 3: t = 2
SessionProgram(n) ==
    IF n = 4
    THEN << Assignment(1, "t", "=", Lit(1)),
            ReturnStatement(2, Lit(5)),
            Assignment(3, "t", "=", Lit(2)) >>
    ELSE IF n = 5
    THEN << Assignment(1, "p", "=", Lit(1)),
            Assignment(2, "q", "=", Lit(2)) >>
    ELSE IF n = 3
    THEN << Assignment(1, "v", "=", BinaryExpression(Id("y"), "+", Id("y"))),
            ExpressionStatement(2, CallExpression(Id("print"), <<Id("v"), Id("x")>>)) >>
    ELSE IF n = 1
    THEN << Assignment(1, "x", "=", Lit(1)),
            FunctionDeclaration(2, "f", <<>>, <<
                ReturnStatement(3, BinaryExpression(Id("x"), "+", Lit(1))) >>),
            Assignment(4, "y", "=", Call0("f")) >>
    ELSE << Assignment(1, "z", "=", BinaryExpression(Id("x"), "+", Id("y"))),
            Assignment(2, "x", "=", BinaryExpression(Id("x"), "+", Lit(10))),
            Assignment(3, "w", "=", Call0("f")) >>

SessionPrograms == {Desc("session", n, <<>>) : n \in 1..5}

\* n = 1                 n = 2
\* 1: i = 0              1: function f(a)
\* 2: while True         2:     if a == 2
\* 3:     i = 1 - i      3:         return = a
\* 4: done = 1           4:     return = 0
\*                       5: n = 0
\*                       6: for i = 1 to 3
\*                       7:     n = n + f(i)
\*                       8: done = 1
StopProgram(n) ==
    IF n = 1
    THEN << Assignment(1, "i", "=", Lit(0)),
            WhileStatement(2, Literal(Bool(TRUE)), <<
                Assignment(3, "i", "=", BinaryExpression(Lit(1), "-", Id("i"))) >>),
            Assignment(4, "done", "=", Lit(1)) >>
    ELSE << FunctionDeclaration(1, "f", <<"a">>, <<
                IfStatement(2, BinaryExpression(Id("a"), "==", Lit(2)),
                            <<ReturnStatement(3, Id("a"))>>, <<>>, <<>>),
                ReturnStatement(4, Lit(0)) >>),
            Assignment(5, "n", "=", Lit(0)),
            ForStatement(6, "i", Lit(1), Lit(3), <<
                Assignment(7, "n", "=", BinaryExpression(Id("n"), "+", Call1("f", Id("i")))) >>),
            Assignment(8, "done", "=", Lit(1)) >>

StopPrograms == {Desc("stop", n, <<>>) : n \in 1..2}

\* n = 1                  n = 2           n = 3              n = 4
\* 1: function f()        1: v = 5        1: n = eval("")    1: n = eval("")
\* 2:     x = 1           2: r = v(1)     2: r = n.p         2: r = n.p()
\* 3:     print(x)        3: after = 1    3: after = 1       3: after = 1
\* 4: print(f(), nope)
\* 5: after = 1
ErrorProgram(n) ==
    IF n = 1
    THEN << FunctionDeclaration(1, "f", <<>>, <<
                Assignment(2, "x", "=", Lit(1)),
                ExpressionStatement(3, Call1("print", Id("x"))) >>),
            ExpressionStatement(4, CallExpression(Id("print"), <<Call0("f"), Id("nope")>>)),
            Assignment(5, "after", "=", Lit(1)) >>
    ELSE << IF n = 2 THEN Assignment(1, "v", "=", Lit(5))
                     ELSE Assignment(1, "n", "=", EvalOf("")),
            Assignment(2, "r", "=",
                CASE n = 2 -> Call1("v", Lit(1))
                  [] n = 3 -> MemberExpression(Id("n"), "p")
                  [] n = 4 -> CallExpression(MemberExpression(Id("n"), "p"), <<>>)),
            Assignment(3, "after", "=", Lit(1)) >>

\* The statements a loop body of the loop programs is made of, at line l:
\*   inc:        n += 1
\*   break:      break
\*   continue:   continue
\*   elif:       if i == 1 / continue / elif i == 2 / break / else / n += 10
AtomNames == {"inc", "break", "continue", "elif"}

IEquals(k) == BinaryExpression(Id("i"), "==", Lit(k))

Atom(a, l) ==
    CASE a = "inc" -> Assignment(l, "n", "+=", Lit(1))
      [] a = "break" -> BreakStatement(l)
      [] a = "continue" -> ContinueStatement(l)
      [] OTHER ->
            IfStatement(l, IEquals(1), <<ContinueStatement(l + 1)>>,
                        <<Elif(IEquals(2), <<BreakStatement(l + 2)>>)>>,
                        <<Assignment(l + 3, "n", "+=", Lit(10))>>)

Atoms(body) == [k \in DOMAIN body |-> Atom(body[k], 10 * k)]

\* The loop bodies: every sequence of 1 to MaxBody statements.
Bodies == UNION {[1..k -> AtomNames] : k \in 1..MaxBody}

\*  3: while i < 3                      3: for i = 1 to 3
\*  4:     i += 1                           <body, lines 10..>
\*         <body, lines 10..>
InnerWhile(body) ==
    WhileStatement(3, BinaryExpression(Id("i"), "<", Lit(3)),
                   <<Assignment(4, "i", "+=", Lit(1))>> \o Atoms(body))

InnerFor(body) == ForStatement(3, "i", Lit(1), Lit(3), Atoms(body))

\*  7: function tick()                  3: while tick() <= 3
\*  8:     i += 1                           <body, lines 10..>
\*  9:     return = i
Tick ==
    FunctionDeclaration(7, "tick", <<>>, <<
        Assignment(8, "i", "+=", Lit(1)),
        ReturnStatement(9, Id("i")) >>)

TickWhile(body) ==
    WhileStatement(3, BinaryExpression(Call0("tick"), "<=", Lit(3)), Atoms(body))

\* n = 1:              n = 2:              n = 3:                n = 4:
\*  1: n = 0            1: n = 0            1: n = 0              1: n = 0
\*  2: i = 0            3: for ...          5: j = 0              2: i = 0
\*  3: while ...       90: after += 1       6: while j < 2        6: for j = 1 to 2
\* 90: after += 1      99: done = 1         7:     j += 1         3:     while ...
\* 99: done = 1                             2:     i = 0         90:     after += 1
\*                                          3:     while ...     92:     i = 0
\*                                         90:     after += 1    91:     continue
\*                                         99: done = 1          99: done = 1
\* (n = 4: the while loop is `while tick() <= 3`, tick declared first)
LoopProgram(n, body) ==
    LET init == Assignment(1, "n", "=", Lit(0))
        reset == Assignment(2, "i", "=", Lit(0))
        after == Assignment(90, "after", "+=", Lit(1))
        done == Assignment(99, "done", "=", Lit(1))
    IN  CASE n = 1 -> <<init, reset, InnerWhile(body), after, done>>
          [] n = 2 -> <<init, InnerFor(body), after, done>>
          [] n = 3 -> <<init, Assignment(5, "j", "=", Lit(0)),
                        WhileStatement(6, BinaryExpression(Id("j"), "<", Lit(2)),
                            <<Assignment(7, "j", "+=", Lit(1)), reset,
                              InnerWhile(body), after>>),
                        done>>
          [] OTHER -> <<init, reset, Tick,
                        ForStatement(6, "j", Lit(1), Lit(2),
                            <<TickWhile(body), after,
                              Assignment(92, "i", "=", Lit(0)),
                              ContinueStatement(91)>>),
                        done>>

LoopVariants == 1..4

\* 1: n = 0
\* 2: function f()
\* 3:     n += 1
\* 4:     return = n
\* 5: a = [f(), f(), 7]
\* 6: e = []
\* 7: after = 1
ArrayProgram == <<
    Assignment(1, "n", "=", Lit(0)),
    FunctionDeclaration(2, "f", <<>>, <<
        Assignment(3, "n", "+=", Lit(1)),
        ReturnStatement(4, Id("n")) >>),
    Assignment(5, "a", "=", ArrayLiteral(<<Call0("f"), Call0("f"), Lit(7)>>)),
    Assignment(6, "e", "=", ArrayLiteral(<<>>)),
    Assignment(7, "after", "=", Lit(1)) >>

\* 1: #P# = [
\* 2:     x = 1
\*    ]
\* 3: print(5)
\* 4: print("hi", True)
\* 5: print(P)
\* 6: after = 1
PrintProgram == <<
    ObjectDefinition(1, "P", "", <<Assignment(2, "x", "=", Lit(1))>>),
    ExpressionStatement(3, Call1("print", Lit(5))),
    ExpressionStatement(4, CallExpression(Id("print"),
                               <<Literal(Str("hi")), Literal(Bool(TRUE))>>)),
    ExpressionStatement(5, Call1("print", Id("P"))),
    Assignment(6, "after", "=", Lit(1)) >>

\* The program the Lexer and Parser of the bracket dialect build for
\* 1: var[x] = 5
\* 2: print(x)
VarProgram == <<
    VarDeclaration(1, "x", Lit(5)),
    ExpressionStatement(2, Call1("print", Id("x"))) >>

\* 1: n = 0
\* 2: function f()
\* 3:     n = n + 1
\* 4: print(f(), f())
\* 5: after = 1
ArgumentsProgram == <<
    Assignment(1, "n", "=", Lit(0)),
    FunctionDeclaration(2, "f", <<>>, <<
        Assignment(3, "n", "=", BinaryExpression(Id("n"), "+", Lit(1))) >>),
    ExpressionStatement(4, CallExpression(Id("print"), <<Call0("f"), Call0("f")>>)),
    Assignment(5, "after", "=", Lit(1)) >>

\* n = 1                      n = 2
\*  1: function f()           21: z = 1
\*  2:     i = 0              22: z = z + 1
\*  3:     while i < 2
\*  4:         i = i + 1
\*  5:     return = i
\*  6: x = f()
\*  7: print(f())
\*  8: done = 1
HostProgram(n) ==
    IF n = 1
    THEN << FunctionDeclaration(1, "f", <<>>, <<
                Assignment(2, "i", "=", Lit(0)),
                WhileStatement(3, BinaryExpression(Id("i"), "<", Lit(2)), <<
                    Assignment(4, "i", "=", BinaryExpression(Id("i"), "+", Lit(1))) >>),
                ReturnStatement(5, Id("i")) >>),
            Assignment(6, "x", "=", Call0("f")),
            ExpressionStatement(7, Call1("print", Call0("f"))),
            Assignment(8, "done", "=", Lit(1)) >>
    ELSE << Assignment(21, "z", "=", Lit(1)),
            Assignment(22, "z", "=", BinaryExpression(Id("z"), "+", Lit(1))) >>

\*  1: function fact(k)          12: function c()
\*  2:     if k < 2                 13:     continue
\*  3:         return = 1           14: g = make()
\*  4:     return = k * fact(k - 1) 15: i = 0
\*  5: function make()              16: s = 0
\*  6:     function h()             17: while i < 2
\*  7:         u = 7                18:     i = i + 1
\*  8:         return = u           19:     s = s + g()
\*  9:     return = h               20:     b()
\* 10: function b()                 21:     c()
\* 11:     break                    22:     s = s + fact(3)
\* 24:     never = 1                23: done = 1
ReturnProgram == <<
    FunctionDeclaration(1, "fact", <<"k">>, <<
        IfStatement(2, BinaryExpression(Id("k"), "<", Lit(2)),
                    <<ReturnStatement(3, Lit(1))>>, <<>>, <<>>),
        ReturnStatement(4, BinaryExpression(Id("k"), "*",
                               Call1("fact", BinaryExpression(Id("k"), "-", Lit(1))))) >>),
    FunctionDeclaration(5, "make", <<>>, <<
        FunctionDeclaration(6, "h", <<>>, <<
            Assignment(7, "u", "=", Lit(7)),
            ReturnStatement(8, Id("u")) >>),
        ReturnStatement(9, Id("h")) >>),
    FunctionDeclaration(10, "b", <<>>, <<
        BreakStatement(11),
        Assignment(24, "never", "=", Lit(1)) >>),
    FunctionDeclaration(12, "c", <<>>, <<ContinueStatement(13)>>),
    Assignment(14, "g", "=", Call0("make")),
    Assignment(15, "i", "=", Lit(0)),
    Assignment(16, "s", "=", Lit(0)),
    WhileStatement(17, BinaryExpression(Id("i"), "<", Lit(2)), <<
        Assignment(18, "i", "=", BinaryExpression(Id("i"), "+", Lit(1))),
        Assignment(19, "s", "=", BinaryExpression(Id("s"), "+", Call0("g"))),
        ExpressionStatement(20, Call0("b")),
        ExpressionStatement(21, Call0("c")),
        Assignment(22, "s", "=", BinaryExpression(Id("s"), "+", Call1("fact", Lit(3)))) >>),
    Assignment(23, "done", "=", Lit(1)) >>

\* 1: function f()
\* 2:     t = 1
\* 3: x = f()
\* 4: y = x
\* 5: after = 1
AssignedProgram == <<
    FunctionDeclaration(1, "f", <<>>, <<Assignment(2, "t", "=", Lit(1))>>),
    Assignment(3, "x", "=", Call0("f")),
    Assignment(4, "y", "=", Id("x")),
    Assignment(5, "after", "=", Lit(1)) >>

\* The scripts of the second set of programs.
Script(n) ==
    CASE n = 1 -> ArrayProgram
      [] n = 2 -> PrintProgram
      [] n = 3 -> VarProgram
      [] n = 4 -> ArgumentsProgram
      [] n = 5 -> ReturnProgram
      [] n = 6 -> AssignedProgram
      [] OTHER -> <<>>

Scripts == {Desc("script", n, <<>>) : n \in 1..6}

Programs ==
    {Desc("assign", n, <<>>) : n \in DOMAIN AssignOps}
    \cup {Desc("closure", n, <<>>) : n \in 1..3}
    \cup {Desc("function", n, <<>>) : n \in DOMAIN FunctionBodies}
    \cup {Desc("param", n, <<>>) : n \in 1..4}
    \cup {Desc("logic", n, <<>>) : n \in 1..LogicCount}
    \cup {Desc("object", n, <<>>) : n \in 1..2}
    \cup {Desc("isolation", 1, <<>>)}
    \cup {Desc("eval", n, <<>>) : n \in 1..2}
    \cup {Desc("range", n, <<>>) : n \in DOMAIN RangeBounds}
    \cup {Desc("count", 1, <<>>)}
    \cup {Desc("error", n, <<>>) : n \in 1..4}
    \cup {Desc("loop", n, body) : n \in LoopVariants, body \in Bodies}

\* n = 1                          n = 2                    n = 3
\* 31: for j = 1 to MaxRange      35: for i = 49 to 51     37: i = 0
\* 32:     for i = 1 to MaxRange  36:     x = i            38: while i < 2
\* 33:         x = 1                                       39:     i += 1
\* 34:         continue
CadenceProgram(n) ==
    IF n = 1
    THEN << ForStatement(31, "j", Lit(1), Lit(MaxRange), <<
                ForStatement(32, "i", Lit(1), Lit(MaxRange), <<
                    Assignment(33, "x", "=", Lit(1)),
                    ContinueStatement(34) >>) >>) >>
    ELSE IF n = 2
    THEN << ForStatement(35, "i", Lit(ForYieldEvery - 1), Lit(ForYieldEvery + 1), <<
                Assignment(36, "x", "=", Id("i")) >>) >>
    ELSE << Assignment(37, "i", "=", Lit(0)),
            WhileStatement(38, BinaryExpression(Id("i"), "<", Lit(2)), <<
                Assignment(39, "i", "+=", Lit(1)) >>) >>

CadencePrograms == {Desc("cadence", n, <<>>) : n \in 1..3}

\* The bounds come from variables the body assigns, and so is the iterator
\* 41: a = 0
\* 42: b = 2
\* 43: n = 0
\* 44: for i = a to b
\* 45:     n = n * 10 + i
\* 46:     i = 7
\* 47:     b = 9
\* 48:     a = 5
\* 49: done = 1
BoundsProgram == <<
    Assignment(41, "a", "=", Lit(0)),
    Assignment(42, "b", "=", Lit(2)),
    Assignment(43, "n", "=", Lit(0)),
    ForStatement(44, "i", Id("a"), Id("b"), <<
        Assignment(45, "n", "=",
            BinaryExpression(BinaryExpression(Id("n"), "*", Lit(10)), "+", Id("i"))),
        Assignment(46, "i", "=", Lit(7)),
        Assignment(47, "b", "=", Lit(9)),
        Assignment(48, "a", "=", Lit(5)) >>),
    Assignment(49, "done", "=", Lit(1)) >>

\* The three tests of the branch programs yield Tests(n), each 0 or 1, and
\* the programs from 9 on have an else.
\* 51: function a()          57: if a()
\* 52:     return = t1       58:     r = 1
\* 53: function b()          59: elif b()
\* 54:     return = t2       60:     r = 2
\* 55: function c()          61: elif c()
\* 56:     return = t3       62:     r = 3
\*                           63: else
\*                           64:     r = 4
\*                           65: done = 1
Tests(n) == << (n - 1) % 2, ((n - 1) \div 2) % 2, ((n - 1) \div 4) % 2 >>
HasElse(n) == n > 8

BranchProgram(n) == <<
    FunctionDeclaration(51, "a", <<>>, << ReturnStatement(52, Lit(Tests(n)[1])) >>),
    FunctionDeclaration(53, "b", <<>>, << ReturnStatement(54, Lit(Tests(n)[2])) >>),
    FunctionDeclaration(55, "c", <<>>, << ReturnStatement(56, Lit(Tests(n)[3])) >>),
    IfStatement(57, Call0("a"), << Assignment(58, "r", "=", Lit(1)) >>,
        << Elif(Call0("b"), << Assignment(60, "r", "=", Lit(2)) >>),
           Elif(Call0("c"), << Assignment(62, "r", "=", Lit(3)) >>) >>,
        IF HasElse(n) THEN << Assignment(64, "r", "=", Lit(4)) >> ELSE <<>>),
    Assignment(65, "done", "=", Lit(1)) >>

FlowPrograms ==
    {Desc("bounds", 1, <<>>)} \cup {Desc("branch", n, <<>>) : n \in 1..16}

\* n = 1, 2, 3                n = 4, 5, 6
\* 71: import a.b.c           73: a = 1
\* 72: done = 1               74: function f()
\*                            75:     import a.b.c
\*                            76:     return = a
\*                            77: x = f()
\*                            78: done = 1
ImportProgram(n) ==
    IF n <= 3
    THEN << ImportStatement(71, ABC),
            Assignment(72, "done", "=", Lit(1)) >>
    ELSE << Assignment(73, "a", "=", Lit(1)),
            FunctionDeclaration(74, "f", <<>>, <<
                ImportStatement(75, ABC),
                ReturnStatement(76, Id("a")) >>),
            Assignment(77, "x", "=", Call0("f")),
            Assignment(78, "done", "=", Lit(1)) >>

ImportPrograms == {Desc("import", n, <<>>) : n \in 1..6}

AstOf(d) ==
    CASE d.fam = "assign" -> AssignProgram(d.n)
      [] d.fam = "closure" -> ClosureProgram(d.n)
      [] d.fam = "function" -> FunctionProgram(d.n)
      [] d.fam = "param" -> ParamProgram(d.n)
      [] d.fam = "logic" -> LogicProgram(d.n)
      [] d.fam = "object" -> ObjectProgram(d.n)
      [] d.fam = "isolation" -> IsolationProgram
      [] d.fam = "eval" -> EvalProgram(d.n)
      [] d.fam = "range" -> RangeProgram(d.n)
      [] d.fam = "count" -> CountProgram
      [] d.fam = "session" -> SessionProgram(d.n)
      [] d.fam = "stop" -> StopProgram(d.n)
      [] d.fam = "error" -> ErrorProgram(d.n)
      [] d.fam = "script" -> Script(d.n)
      [] d.fam = "host" -> HostProgram(d.n)
      [] d.fam = "cadence" -> CadenceProgram(d.n)
      [] d.fam = "bounds" -> BoundsProgram
      [] d.fam = "import" -> ImportProgram(d.n)
      [] d.fam = "branch" -> BranchProgram(d.n)
      [] OTHER -> LoopProgram(d.n, d.body)

-----------------------------------------------------------------------------
(* The interpreter as a state machine *)

\* new Interpreter(output, input, external, deps), with no external globals;
\* no Lexer and no Interpreter of the other dialect is at work
InitialGlobals ==
    [values |-> ("print" :> Builtin("print")) @@
                ("activateCanvas" :> Builtin("activateCanvas")),
     parent |-> 0]

Constructed ==
    /\ scopes = <<InitialGlobals>>
    /\ tasks = <<>>
    /\ stop = FALSE
    /\ opCounter = 0
    /\ console = <<>>
    /\ prog = Desc("", 0, <<>>)
    /\ runs = 0
    /\ trace = <<>>
    /\ evalCache = EmptyMap
    /\ compiled = <<>>
    /\ output = <<>>
    /\ unyielded = 0
    /\ parser = ParserIdle
    /\ sqrd = SqrdIdle
    /\ mesh = MeshLoaded

\* No Lexer is at work, and no Interpreter of the other dialect.
Init ==
    /\ Constructed
    /\ lexer = LexerIdle
    /\ squared = SquaredIdle

\* No execution is pending: the host calls run() after the previous run has
\* settled.
Idle == \A t \in DOMAIN tasks : tasks[t].status \in {"done", "error"}

\* run() starts from a new global scope
RunScopesFresh(sc) == <<InitialGlobals>>

\* The scopes run() executes with: this.globals and all there is, as they are.
RunScopes(sc) == sc

\* Interpreter.run(ast)
Start(d) ==
    /\ Idle
    /\ stop' = FALSE
    /\ tasks' = <<NewTask(BlockFrame(AstOf(d), 1), 0)>>
    /\ scopes' = RunScopes(scopes)
    /\ prog' = d
    /\ runs' = runs + 1
    /\ trace' = <<>>
    /\ unyielded' = 0
    /\ UNCHANGED <<opCounter, console, evalCache, compiled, lexer, squared, output, parser, sqrd, mesh>>

\* The host runs one of the programs.
Run(d) == runs < MaxRuns /\ Start(d)

Next ==
    \/ \E d \in Programs : Run(d)
    \/ \E t \in DOMAIN tasks : ExecuteBlock(t)
    \/ \E t \in DOMAIN tasks : Timer(t)
    \/ \E t \in DOMAIN tasks : ExecFunctionDeclaration(t)
    \/ \E t \in DOMAIN tasks : ExecObjectDefinition(t)
    \/ \E t \in DOMAIN tasks : ExecAssignment(t)
    \/ \E t \in DOMAIN tasks : ExecIfStatement(t)
    \/ \E t \in DOMAIN tasks : ExecWhileStatement(t)
    \/ \E t \in DOMAIN tasks : ExecForStatement(t)
    \/ \E t \in DOMAIN tasks : ExecReturnStatement(t)
    \/ \E t \in DOMAIN tasks : ExecBreakStatement(t)
    \/ \E t \in DOMAIN tasks : ExecContinueStatement(t)
    \/ \E t \in DOMAIN tasks : ExecExpressionStatement(t)
    \/ \E t \in DOMAIN tasks : EvalLiteral(t)
    \/ \E t \in DOMAIN tasks : EvalIdentifier(t)
    \/ \E t \in DOMAIN tasks : EvalBinaryExpression(t)
    \/ \E t \in DOMAIN tasks : EvalCallExpression(t)
    \/ \E t \in DOMAIN tasks : EvalCallApply(t)
    \/ \E t \in DOMAIN tasks : EvalMemberExpression(t)
    \/ \E t \in DOMAIN tasks : EvalEvalCall(t)
    \/ \E t \in DOMAIN tasks : EvalOther(t)

Spec == Init /\ [][Next]_vars

-----------------------------------------------------------------------------
(* A session: the host calls run() several times on one Interpreter, each  *)
(* time with one of the session programs.                                   *)

\* The host runs one of the session programs.
Rerun(d) == runs < MaxSessions /\ Start(d)

SessionNext ==
    \/ \E d \in SessionPrograms : Rerun(d)
    \/ \E t \in DOMAIN tasks : ExecuteBlock(t)
    \/ \E t \in DOMAIN tasks : ExecFunctionDeclaration(t)
    \/ \E t \in DOMAIN tasks : ExecAssignment(t)
    \/ \E t \in DOMAIN tasks : ExecReturnStatement(t)
    \/ \E t \in DOMAIN tasks : ExecExpressionStatement(t)
    \/ \E t \in DOMAIN tasks : EvalLiteral(t)
    \/ \E t \in DOMAIN tasks : EvalIdentifier(t)
    \/ \E t \in DOMAIN tasks : EvalBinaryExpression(t)
    \/ \E t \in DOMAIN tasks : EvalCallExpression(t)
    \/ \E t \in DOMAIN tasks : EvalCallApply(t)

SessionSpec == Init /\ [][SessionNext]_vars

-----------------------------------------------------------------------------
(* The host runs one of the scripts.                                        *)

ScriptNext ==
    \/ \E d \in Scripts : Run(d)
    \/ \E t \in DOMAIN tasks : ExecuteBlock(t)
    \/ \E t \in DOMAIN tasks : Timer(t)
    \/ \E t \in DOMAIN tasks : ExecFunctionDeclaration(t)
    \/ \E t \in DOMAIN tasks : ExecObjectDefinition(t)
    \/ \E t \in DOMAIN tasks : ExecAssignment(t)
    \/ \E t \in DOMAIN tasks : ExecIfStatement(t)
    \/ \E t \in DOMAIN tasks : ExecWhileStatement(t)
    \/ \E t \in DOMAIN tasks : ExecReturnStatement(t)
    \/ \E t \in DOMAIN tasks : ExecBreakStatement(t)
    \/ \E t \in DOMAIN tasks : ExecContinueStatement(t)
    \/ \E t \in DOMAIN tasks : ExecExpressionStatement(t)
    \/ \E t \in DOMAIN tasks : ExecOther(t)
    \/ \E t \in DOMAIN tasks : EvalLiteral(t)
    \/ \E t \in DOMAIN tasks : EvalIdentifier(t)
    \/ \E t \in DOMAIN tasks : EvalBinaryExpression(t)
    \/ \E t \in DOMAIN tasks : EvalCallExpression(t)
    \/ \E t \in DOMAIN tasks : EvalCallApply(t)
    \/ \E t \in DOMAIN tasks : EvalOther(t)

ScriptSpec == Init /\ [][ScriptNext]_vars

-----------------------------------------------------------------------------
(* Cancellation: the host sets the stop flag while one of the stop programs *)
(* is executing.  The while loop of the first one never ends by itself, so  *)
(* an execution the host has not cancelled is followed for MaxTrace         *)
(* statements and loop tests only.                                          *)

\* The host sets interpreter.stop = true while a script is executing.
Cancel ==
    /\ ~Idle
    /\ ~stop
    /\ stop' = TRUE
    /\ UNCHANGED <<scopes, tasks, opCounter, console, prog, runs, trace,
                   evalCache, compiled, lexer, squared, output, unyielded, parser, sqrd, mesh>>

Followed == stop \/ Len(trace) < MaxTrace

\* The event loop resumes a pending call of the execution.
Resume ==
    \/ Followed /\ \E t \in DOMAIN tasks : ExecuteBlock(t)
    \/ \E t \in DOMAIN tasks : Timer(t)
    \/ \E t \in DOMAIN tasks : ExecFunctionDeclaration(t)
    \/ \E t \in DOMAIN tasks : ExecAssignment(t)
    \/ \E t \in DOMAIN tasks : ExecIfStatement(t)
    \/ Followed /\ \E t \in DOMAIN tasks : ExecWhileStatement(t)
    \/ Followed /\ \E t \in DOMAIN tasks : ExecForStatement(t)
    \/ \E t \in DOMAIN tasks : ExecReturnStatement(t)
    \/ \E t \in DOMAIN tasks : EvalLiteral(t)
    \/ \E t \in DOMAIN tasks : EvalIdentifier(t)
    \/ \E t \in DOMAIN tasks : EvalBinaryExpression(t)
    \/ \E t \in DOMAIN tasks : EvalCallExpression(t)
    \/ \E t \in DOMAIN tasks : EvalCallApply(t)

StopNext ==
    \/ \E d \in StopPrograms : Run(d)
    \/ Cancel
    \/ Resume

\* Every pending call that can be resumed is resumed in the end, and so is
\* every timer callback: the host's event loop runs its queues.
StopSpec == Init /\ [][StopNext]_vars /\ WF_vars(Resume)

-----------------------------------------------------------------------------
(* The host between two turns of the event loop: while the execution of the *)
(* first host program is suspended at a yield (its setTimeout callback has  *)
(* not run yet), the host's own handlers run: they set the stop flag, and   *)
(* they call run() with the second host program.  Both are recorded in the  *)
(* history.                                                                 *)

Suspended == \E t \in DOMAIN tasks : tasks[t].status = "timer"

\* A continuation of task t is in the microtask queue.
Runnable(t) ==
    \/ tasks[t].status = "run"
    \/ /\ tasks[t].status = "join"
       /\ ArgsRejected(Top(tasks[t])) \/ ArgsResolved(Top(tasks[t]))

\* The microtask queue is empty: the event loop takes its next task, a timer
\* callback or a handler of the host.
Drained == \A t \in DOMAIN tasks : ~Runnable(t)

\* interpreter.stop = true, set by a handler of the host
HostCancel ==
    /\ Suspended
    /\ Drained
    /\ ~stop
    /\ stop' = TRUE
    /\ trace' = Record(<<"stop", 0>>)
    /\ UNCHANGED <<scopes, tasks, opCounter, console, prog, runs,
                   evalCache, compiled, lexer, squared, output, unyielded, parser, sqrd, mesh>>

\* Interpreter.run(ast), called by a handler of the host after it has set the
\* flag, the cancelled execution still suspended
HostRerun(d) ==
    /\ Suspended
    /\ stop
    /\ runs < MaxSessions
    /\ stop' = FALSE
    /\ tasks' = Append(tasks, NewTask(BlockFrame(AstOf(d), 1), 0))
    /\ scopes' = RunScopes(scopes)
    /\ prog' = d
    /\ runs' = runs + 1
    /\ trace' = Record(<<"run", runs + 1>>)
    /\ unyielded' = 0
    /\ UNCHANGED <<opCounter, console, evalCache, compiled, lexer, squared, output, parser, sqrd, mesh>>

HostNext ==
    \/ Run(Desc("host", 1, <<>>))
    \/ HostCancel
    \/ HostRerun(Desc("host", 2, <<>>))
    \/ \E t \in DOMAIN tasks : ExecuteBlock(t)
    \/ Drained /\ \E t \in DOMAIN tasks : Timer(t)
    \/ \E t \in DOMAIN tasks : ExecFunctionDeclaration(t)
    \/ \E t \in DOMAIN tasks : ExecAssignment(t)
    \/ \E t \in DOMAIN tasks : ExecWhileStatement(t)
    \/ \E t \in DOMAIN tasks : ExecReturnStatement(t)
    \/ \E t \in DOMAIN tasks : ExecExpressionStatement(t)
    \/ \E t \in DOMAIN tasks : EvalLiteral(t)
    \/ \E t \in DOMAIN tasks : EvalIdentifier(t)
    \/ \E t \in DOMAIN tasks : EvalBinaryExpression(t)
    \/ \E t \in DOMAIN tasks : EvalCallExpression(t)
    \/ \E t \in DOMAIN tasks : EvalCallApply(t)

HostSpec == Init /\ [][HostNext]_vars

-----------------------------------------------------------------------------
(* The yields of executeBlock and of the two loops: the host runs one of    *)
(* the cadence programs, whose loops are long enough, or placed on the      *)
(* multiples of ForYieldEvery, for the yields to be due.                    *)

CadenceNext ==
    \/ \E d \in CadencePrograms : Run(d)
    \/ \E t \in DOMAIN tasks : ExecuteBlock(t)
    \/ \E t \in DOMAIN tasks : Timer(t)
    \/ \E t \in DOMAIN tasks : ExecAssignment(t)
    \/ \E t \in DOMAIN tasks : ExecWhileStatement(t)
    \/ \E t \in DOMAIN tasks : ExecForStatement(t)
    \/ \E t \in DOMAIN tasks : ExecContinueStatement(t)
    \/ \E t \in DOMAIN tasks : EvalLiteral(t)
    \/ \E t \in DOMAIN tasks : EvalIdentifier(t)
    \/ \E t \in DOMAIN tasks : EvalBinaryExpression(t)

CadenceSpec == Init /\ [][CadenceNext]_vars

-----------------------------------------------------------------------------
(* The range for loop and the if statement: the host runs the bounds        *)
(* program or one of the branch programs.                                   *)

FlowNext ==
    \/ \E d \in FlowPrograms : Run(d)
    \/ \E t \in DOMAIN tasks : ExecuteBlock(t)
    \/ \E t \in DOMAIN tasks : Timer(t)
    \/ \E t \in DOMAIN tasks : ExecFunctionDeclaration(t)
    \/ \E t \in DOMAIN tasks : ExecAssignment(t)
    \/ \E t \in DOMAIN tasks : ExecIfStatement(t)
    \/ \E t \in DOMAIN tasks : ExecForStatement(t)
    \/ \E t \in DOMAIN tasks : ExecReturnStatement(t)
    \/ \E t \in DOMAIN tasks : EvalLiteral(t)
    \/ \E t \in DOMAIN tasks : EvalIdentifier(t)
    \/ \E t \in DOMAIN tasks : EvalBinaryExpression(t)
    \/ \E t \in DOMAIN tasks : EvalCallExpression(t)
    \/ \E t \in DOMAIN tasks : EvalCallApply(t)

FlowSpec == Init /\ [][FlowNext]_vars

-----------------------------------------------------------------------------
(* The import statement: the host fills the ModuleManager and runs one of   *)
(* the import programs.                                                     *)

ImportNext ==
    \/ \E d \in ImportPrograms : Run(d)
    \/ \E t \in DOMAIN tasks : ExecuteBlock(t)
    \/ \E t \in DOMAIN tasks : ExecImportStatement(t)
    \/ \E t \in DOMAIN tasks : ImportLoaded(t)
    \/ \E t \in DOMAIN tasks : ExecFunctionDeclaration(t)
    \/ \E t \in DOMAIN tasks : ExecAssignment(t)
    \/ \E t \in DOMAIN tasks : ExecReturnStatement(t)
    \/ \E t \in DOMAIN tasks : EvalLiteral(t)
    \/ \E t \in DOMAIN tasks : EvalIdentifier(t)
    \/ \E t \in DOMAIN tasks : EvalCallExpression(t)
    \/ \E t \in DOMAIN tasks : EvalCallApply(t)

ImportSpec == Init /\ [][ImportNext]_vars



-----------------------------------------------------------------------------
(* The Map-based Interpreter of src/unnamed/part_001: evaluateExpression.   *)
(* A scope is a Map from names to values; the outcome of an evaluation is   *)
(* the error thrown ("" when none), the value returned, and the builtins    *)
(* invoked with their arguments, oldest first.                              *)

Returned(v, calls) == [err |-> "", val |-> v, calls |-> calls]
Thrown(msg, calls) == [err |-> msg, val |-> Undefined, calls |-> calls]

\* The calls of the evaluations rs, in order.
RECURSIVE CallsOf(_)
CallsOf(rs) == IF rs = <<>> THEN <<>> ELSE Head(rs).calls \o CallsOf(Tail(rs))

\* What a call of a value that is not a function, and a member access on a
\* value that is not an object, evaluate to: `return null`.
EvaluateLenient(kind, v, property) == Returned(Null, <<>>)

\* Interpreter.evaluateExpression of part_001, for Literal, Identifier,
\* CallExpression and MemberExpression nodes; the function the expressions
\* call is the builtin print, which returns nothing.
RECURSIVE EvaluateExpression(_, _)
EvaluateExpression(node, scope) ==
    CASE node.type = "Literal" -> Returned(node.value, <<>>)
      [] node.type = "Identifier" ->
            IF node.value \notin DOMAIN scope
            THEN Thrown("Undefined variable: " \o node.value, <<>>)
            ELSE Returned(scope[node.value], <<>>)
      [] node.type = "CallExpression" ->
            LET callee == EvaluateExpression(node.callee, scope)
                args == [k \in DOMAIN node.arguments |->
                            EvaluateExpression(node.arguments[k], scope)]
                failed == {k \in DOMAIN args : args[k].err # ""}
                calls == callee.calls \o CallsOf(args)
                last == IF IsCallable(callee.val)
                        THEN Returned(Undefined,
                                      << <<callee.val.v, [k \in DOMAIN args |-> args[k].val]>> >>)
                        ELSE EvaluateLenient("call", callee.val, "")
            IN  IF callee.err # "" THEN callee
                ELSE IF failed # {}
                THEN Thrown(args[CHOOSE k \in failed : \A j \in failed : k <= j].err, calls)
                ELSE [last EXCEPT !.calls = calls \o @]
      [] node.type = "MemberExpression" ->
            LET obj == EvaluateExpression(node.object, scope)
                last == IF IsObjectLike(obj.val)
                        THEN Returned(GetMember(obj.val, node.property), <<>>)
                        ELSE EvaluateLenient("member", obj.val, node.property)
            IN  IF obj.err # "" THEN obj
                ELSE [last EXCEPT !.calls = obj.calls \o @]

\* this.globals of the Interpreter with a script's variables:
\* v = 5, s = "a", o = {a: 1}, n = null
SquaredGlobals ==
    ("print" :> Builtin("print")) @@ ("input" :> Builtin("input")) @@
    ("v" :> Num(5)) @@ ("s" :> Str("a")) @@ ("o" :> Object("a" :> Num(1))) @@
    ("n" :> Null)

\* The expressions evaluated: the targets, member accesses on them, and calls
\* of the targets and of their members with up to MaxArgs arguments.
SquaredTargets ==
    {Literal(Num(5)), Literal(Str("a"))}
    \cup {Identifier(name) : name \in {"v", "s", "o", "n", "print", "nope"}}

SquaredMembers ==
    {MemberExpression(e, property) : e \in SquaredTargets, property \in {"a", "b"}}

SquaredArguments ==
    UNION {[1..k -> {Literal(Num(1)), Identifier("v"),
                     CallExpression(Identifier("print"), <<>>)}] : k \in 0..MaxArgs}

SquaredExpressions ==
    SquaredTargets \cup SquaredMembers
    \cup {MemberExpression(e, "a") : e \in SquaredMembers}
    \cup {CallExpression(e, args) :
            e \in SquaredTargets \cup SquaredMembers, args \in SquaredArguments}

\* The host hands one of the expressions to evaluateExpression.
SquaredInit ==
    /\ Constructed
    /\ lexer = LexerIdle
    /\ squared \in {[state |-> "called", node |-> e, result |-> Null] :
                       e \in SquaredExpressions}

\* evaluateExpression(node, this.globals) settles.
SquaredEvaluate ==
    /\ squared.state = "called"
    /\ squared' = [squared EXCEPT !.state = "settled",
                                  !.result = EvaluateExpression(squared.node, SquaredGlobals)]
    /\ UNCHANGED <<scopes, tasks, stop, opCounter, console, prog, runs, trace,
                   evalCache, compiled, lexer, output, unyielded, parser, sqrd, mesh>>

SquaredNext == SquaredEvaluate

SquaredSpec == SquaredInit /\ [][SquaredNext]_vars

-----------------------------------------------------------------------------
(* The Map-based Interpreter of src/unnamed/part_001: run, executeBlock and *)
(* executeStatement.  maps is the arena of the Map objects used as scopes,  *)
(* maps[1] being this.globals; stack holds the executeBlock calls in        *)
(* progress, innermost last.  A call is at the statement i of its body      *)
(* ("next"), awaits the function that statement calls ("call"), or has      *)
(* returned res ("returned").  this.stop stays false: run() clears it and   *)
(* the class has no method that sets it.                                    *)

\* Assignment operators of the programs
SqrdOperators == {"=", "+=", "-=", "*="}
\* Values the programs assign
SqrdValues == 1..3
\* Names the programs assign to: a global variable, a parameter of the
\* function, and a name bound nowhere
SqrdNames == {"g", "p", "h"}

\* 1: g = 5
\* 2: function f(p)
\* 3:     <name> <operator> <value>
\* 4:     return g
\* 5: r = f(1)
\* 6: after = g
SqrdProgram(name, operator, value) ==
    << Assignment(1, "g", "=", Lit(5)),
       FunctionDeclaration(2, "f", <<"p">>, <<
           Assignment(3, name, operator, Lit(value)),
           ReturnStatement(4, Id("g")) >>),
       Assignment(5, "r", "=", CallExpression(Id("f"), <<Lit(1)>>)),
       Assignment(6, "after", "=", Id("g")) >>

SqrdPrograms ==
    {[name |-> name, operator |-> operator, value |-> value] :
        name \in SqrdNames, operator \in SqrdOperators, value \in SqrdValues}

\* An executeBlock(statements, scope) call that has just been made
SqrdBlock(statements, scope) ==
    [body |-> statements, i |-> 1, scope |-> scope, res |-> Null,
     state |-> IF statements = <<>> THEN "returned" ELSE "next"]

\* executeBlock after executeStatement has returned result for the statement
\* b.i: the block returns the return value its scope holds, goes on to the
\* next statement, or returns the last result.
SqrdAfter(maps, b, result) ==
    IF "__return_value__" \in DOMAIN maps[b.scope]
    THEN [b EXCEPT !.state = "returned", !.res = maps[b.scope]["__return_value__"]]
    ELSE IF b.i = Len(b.body) THEN [b EXCEPT !.state = "returned", !.res = result]
    ELSE [b EXCEPT !.state = "next", !.i = b.i + 1]

\* const target = scope.has(node.name) ? scope : this.globals
SqrdTarget(maps, scope, name) == IF name \in DOMAIN maps[scope] THEN scope ELSE 1

\* case 'Assignment', once the value is known
SqrdAssign(maps, scope, node, val) ==
    LET target == SqrdTarget(maps, scope, node.name)
        cur == IF node.name \in DOMAIN maps[target] /\ Truthy(maps[target][node.name])
               THEN maps[target][node.name] ELSE Num(0)
    IN  [maps EXCEPT ![target] = (node.name :> CompoundOp(node.operator, cur, val)) @@ @]

\* The expression a statement evaluates
SqrdExpression(node) ==
    IF node.type = "ExpressionStatement" THEN node.expression ELSE node.value

\* executeStatement once the statement's expression has the value val: the
\* Maps afterwards and what executeStatement returns
SqrdComplete(maps, scope, node, val) ==
    CASE node.type = "Assignment" ->
            [maps |-> SqrdAssign(maps, scope, node, val), result |-> Undefined]
      [] node.type = "ReturnStatement" ->
            [maps |-> [maps EXCEPT ![scope] = ("__return_value__" :> val) @@ @],
             result |-> val]
      [] OTHER -> [maps |-> maps, result |-> val]

\* const localScope = new Map(scope); params.forEach(...)
SqrdLocalScope(maps, closure, args) ==
    LET params == closure.node.params
    IN  [name \in {params[k] : k \in DOMAIN params} |->
            LET k == CHOOSE j \in DOMAIN params :
                        params[j] = name /\ \A l \in DOMAIN params : params[l] = name => l <= j
            IN  IF k \in DOMAIN args THEN args[k] ELSE Undefined]
        @@ maps[closure.scope]

SqrdInit ==
    /\ Constructed
    /\ lexer = LexerIdle
    /\ squared = SquaredIdle

\* new Interpreter(output, input).run(ast)
SqrdRun(p) ==
    /\ sqrd.state = "idle"
    /\ sqrd' = [state |-> "run", program |-> p, err |-> "", result |-> Null,
                maps |-> << ("print" :> Builtin("print")) @@ ("input" :> Builtin("input")) >>,
                stack |-> << SqrdBlock(SqrdProgram(p.name, p.operator, p.value), 1) >>]
    /\ UNCHANGED <<scopes, tasks, stop, opCounter, console, prog, runs, trace,
                   evalCache, compiled, lexer, squared, output, unyielded, parser, mesh>>

\* executeStatement(stmt, scope) for the next statement of the innermost
\* block, up to the call of a declared function when its expression is one.
SqrdExecuteStatement ==
    /\ sqrd.state = "run"
    /\ LET d == Len(sqrd.stack)
           b == sqrd.stack[d]
       IN  /\ b.state = "next"
           /\ LET node == b.body[b.i]
              IN  IF node.type = "FunctionDeclaration"
                  THEN \E maps \in {[sqrd.maps EXCEPT ![b.scope] =
                                        (node.name :> Closure(node, b.scope)) @@ @]} :
                          sqrd' = [sqrd EXCEPT !.maps = maps,
                                               !.stack[d] = SqrdAfter(maps, b, Undefined)]
                  ELSE LET e == SqrdExpression(node)
                           called == e.type = "CallExpression"
                           callee == IF called THEN EvaluateExpression(e.callee, sqrd.maps[b.scope])
                                     ELSE Thrown("", <<>>)
                           args == IF called
                                   THEN [k \in DOMAIN e.arguments |->
                                            EvaluateExpression(e.arguments[k], sqrd.maps[b.scope])]
                                   ELSE <<>>
                       IN  IF /\ called
                              /\ callee.err = ""
                              /\ callee.val.t = "function"
                              /\ \A k \in DOMAIN args : args[k].err = ""
                           THEN sqrd' = [sqrd EXCEPT
                                   !.maps = Append(@, SqrdLocalScope(sqrd.maps, callee.val,
                                                       [k \in DOMAIN args |-> args[k].val])),
                                   !.stack = Append([@ EXCEPT ![d].state = "call"],
                                                    SqrdBlock(callee.val.node.body,
                                                              Len(sqrd.maps) + 1))]
                           ELSE \E r \in {EvaluateExpression(e, sqrd.maps[b.scope])} :
                                   IF r.err # ""
                                   THEN sqrd' = [sqrd EXCEPT !.state = "error", !.err = r.err]
                                   ELSE \E c \in {SqrdComplete(sqrd.maps, b.scope, node, r.val)} :
                                           sqrd' = [sqrd EXCEPT
                                               !.maps = c.maps,
                                               !.stack[d] = SqrdAfter(c.maps, b, c.result)]
    /\ UNCHANGED <<scopes, tasks, stop, opCounter, console, prog, runs, trace,
                   evalCache, compiled, lexer, squared, output, unyielded, parser, mesh>>

\* The block of a called function has returned: the closure deletes the
\* return value from its local scope and returns the result, and the
\* statement that made the call completes with it.
SqrdCallReturns ==
    /\ sqrd.state = "run"
    /\ LET d == Len(sqrd.stack)
           b == sqrd.stack[d]
       IN  /\ d > 1
           /\ b.state = "returned"
           /\ LET caller == sqrd.stack[d - 1]
                  dropped == [sqrd.maps EXCEPT ![b.scope] =
                                 [k \in (DOMAIN @) \ {"__return_value__"} |-> @[k]]]
              IN  \E c \in {SqrdComplete(dropped, caller.scope, caller.body[caller.i], b.res)} :
                      sqrd' = [sqrd EXCEPT
                          !.maps = c.maps,
                          !.stack = Append(SubSeq(sqrd.stack, 1, d - 2),
                                           SqrdAfter(c.maps, caller, c.result))]
    /\ UNCHANGED <<scopes, tasks, stop, opCounter, console, prog, runs, trace,
                   evalCache, compiled, lexer, squared, output, unyielded, parser, mesh>>

\* The block of run() has returned: the promise of run() resolves.
SqrdSettle ==
    /\ sqrd.state = "run"
    /\ Len(sqrd.stack) = 1
    /\ sqrd.stack[1].state = "returned"
    /\ sqrd' = [sqrd EXCEPT !.state = "done", !.result = sqrd.stack[1].res]
    /\ UNCHANGED <<scopes, tasks, stop, opCounter, console, prog, runs, trace,
                   evalCache, compiled, lexer, squared, output, unyielded, parser, mesh>>

SqrdNext ==
    \/ \E p \in SqrdPrograms : SqrdRun(p)
    \/ SqrdExecuteStatement
    \/ SqrdCallReturns
    \/ SqrdSettle

SqrdSpec == SqrdInit /\ [][SqrdNext]_vars

-----------------------------------------------------------------------------
(* The MESH engine's keyboard state (src/mesh/MESH.js) under a script that  *)
(* draws frames.  The script runs on the one JavaScript thread: an event    *)
(* handler runs only while the script is suspended, in a yield of           *)
(* executeBlock ("yield"), in the frame-rate limiter of EndDrawing          *)
(* ("limiter") or in its requestAnimationFrame wait ("frame").              *)

\* e.key.toLowerCase() of the events
Keys == {"a", "b"}

Others == <<scopes, tasks, stop, opCounter, console, prog, runs, trace,
            evalCache, compiled, lexer, squared, output, unyielded, parser, sqrd>>

\* if (!keys.has(k)) keysPressed.add(k)
Marked(k) == IF k \notin mesh.keys THEN {k} ELSE {}

\* The keydown listener
KeyDown(k) ==
    /\ mesh.pc # "script"
    /\ \E marked \in {Marked(k)} :
          mesh' = [mesh EXCEPT !.keysPressed = @ \cup marked,
                               !.keys = @ \cup {k},
                               !.pending = @ \cup marked]
    /\ UNCHANGED Others

\* The keyup listener
KeyUp(k) ==
    /\ mesh.pc # "script"
    /\ k \in mesh.keys
    /\ mesh' = [mesh EXCEPT !.keys = @ \ {k}, !.keysReleased = @ \cup {k}]
    /\ UNCHANGED Others

\* MESH.InitWindow(width, height, title), the canvas being in the page
InitWindow ==
    /\ mesh.pc = "script"
    /\ ~mesh.ctx
    /\ mesh' = [mesh EXCEPT !.ctx = TRUE]
    /\ UNCHANGED Others

\* executeBlock suspends the script in setTimeout(r, 0)
ScriptYields ==
    /\ mesh.pc = "script"
    /\ mesh' = [mesh EXCEPT !.pc = "yield"]
    /\ UNCHANGED Others

\* The timer fires and script code runs again: IsKeyPressed(k) is true for
\* every marked key.
ScriptResumes ==
    /\ mesh.pc = "yield"
    /\ mesh' = [mesh EXCEPT !.pc = "script", !.pending = {}]
    /\ UNCHANGED Others

\* keysPressed.clear(); keysReleased.clear(), then the wait for the next
\* animation frame
ClearPressed(m) ==
    [m EXCEPT !.keysPressed = {}, !.keysReleased = {}, !.pc = "frame",
              !.pending = {}, !.missed = @ \cup m.pending]

\* The script calls MESH.EndDrawing(): it returns at once without a canvas,
\* waits in the limiter when the frame was short (elapsed < targetMs), and
\* clears the marks otherwise.
EndDrawing ==
    /\ mesh.pc = "script"
    /\ \E short \in BOOLEAN :
          mesh' = IF ~mesh.ctx THEN mesh
                  ELSE IF short THEN [mesh EXCEPT !.pc = "limiter"]
                  ELSE ClearPressed(mesh)
    /\ mesh' # mesh
    /\ UNCHANGED Others

\* The limiter's timer fires: EndDrawing goes on and clears the marks.
LimiterFires ==
    /\ mesh.pc = "limiter"
    /\ mesh' = ClearPressed(mesh)
    /\ UNCHANGED Others

\* The animation frame comes: EndDrawing's promise resolves and script code
\* runs again.
FrameComes ==
    /\ mesh.pc = "frame"
    /\ mesh' = [mesh EXCEPT !.pc = "script", !.pending = {}]
    /\ UNCHANGED Others

MeshInit ==
    /\ Constructed
    /\ lexer = LexerIdle
    /\ squared = SquaredIdle

MeshNext ==
    \/ \E k \in Keys : KeyDown(k)
    \/ \E k \in Keys : KeyUp(k)
    \/ InitWindow
    \/ ScriptYields
    \/ ScriptResumes
    \/ EndDrawing
    \/ LimiterFires
    \/ FrameComes

MeshSpec == MeshInit /\ [][MeshNext]_vars

-----------------------------------------------------------------------------
(* Lexer.tokenize of src/mesh/parser.js.                                      *)
(* A line of the input is its leading whitespace, a sequence of " " and      *)
(* "\t", and the kind of what follows: "" (nothing), "--" (a comment) or     *)
(* "x" (code).  lexer.i is the loop variable i + 1, lexer.state the place    *)
(* in the loop body; pushes and pops are history: the calls of               *)
(* indentStack.push and indentStack.pop.                                     *)

Line(lead, text) == [lead |-> lead, text |-> text]

LexLines ==
    {Line(lead, "x") : lead \in UNION {[1..k -> {" ", "\t"}] : k \in 0..MaxLead}}
    \cup {Line(<<>>, ""), Line(<<" ">>, ""), Line(<<>>, "--"), Line(<<" ">>, "--")}

LexInputs == UNION {[1..n -> LexLines] : n \in 0..MaxLines}

\* indentMatch[1].replace(/\t/g, '    ').length
RECURSIVE Indent(_)
Indent(lead) ==
    IF lead = <<>> THEN 0
    ELSE (IF Head(lead) = "\t" THEN 4 ELSE 1) + Indent(Tail(lead))

Token(type, line) == [type |-> type, line |-> line]

\* A line at the width of the enclosing one opens a level too
DeeperOrLevel(indent, stack) == indent >= stack[Len(stack)]

\* indent > this.indentStack[this.indentStack.length - 1]
Deeper(indent, stack) == indent > stack[Len(stack)]

\* new Lexer(input), tokenize() entered.
LexInit ==
    /\ Constructed
    /\ squared = SquaredIdle
    /\ lexer \in {[lines |-> input, i |-> 1, indentStack |-> <<0>>, tokens |-> <<>>,
                   state |-> "line", pushes |-> 0, pops |-> 0] : input \in LexInputs}

LexLine == lexer.lines[lexer.i]

LexerOnly == UNCHANGED <<scopes, tasks, stop, opCounter, console, prog, runs, trace,
                         evalCache, compiled, squared, output, unyielded, parser, sqrd, mesh>>

\* A line that is empty or a comment once trimmed: continue
LexSkip ==
    /\ lexer.state = "line"
    /\ lexer.i <= Len(lexer.lines)
    /\ LexLine.text \in {"", "--"}
    /\ lexer' = [lexer EXCEPT !.i = @ + 1]
    /\ LexerOnly

\* A line indented deeper than the top of the stack: INDENT, push
LexIndent ==
    /\ lexer.state = "line"
    /\ lexer.i <= Len(lexer.lines)
    /\ LexLine.text = "x"
    /\ Deeper(Indent(LexLine.lead), lexer.indentStack)
    /\ lexer' = [lexer EXCEPT !.tokens = Append(@, Token("INDENT", lexer.i)),
                              !.indentStack = Append(@, Indent(LexLine.lead)),
                              !.pushes = @ + 1,
                              !.state = "text"]
    /\ LexerOnly

\* The else branch: while the line is indented less than the top of the
\* stack, DEDENT and pop; then the line is tokenized.
LexDedent ==
    /\ lexer.state = "line"
    /\ lexer.i <= Len(lexer.lines)
    /\ LexLine.text = "x"
    /\ ~Deeper(Indent(LexLine.lead), lexer.indentStack)
    /\ IF Indent(LexLine.lead) < lexer.indentStack[Len(lexer.indentStack)]
       THEN lexer' = [lexer EXCEPT !.tokens = Append(@, Token("DEDENT", lexer.i)),
                                   !.indentStack = SubSeq(@, 1, Len(@) - 1),
                                   !.pops = @ + 1]
       ELSE lexer' = [lexer EXCEPT !.state = "text"]
    /\ LexerOnly

\* The tokens tokenizeLine pushes for a line of code: those the line is given
\* with, each with the number of the line, or one identifier.
LineTokens(line, lineNum) ==
    IF "words" \in DOMAIN line
    THEN [k \in DOMAIN line.words |->
             [type |-> line.words[k].type, value |-> line.words[k].value, line |-> lineNum]]
    ELSE <<Token("IDENTIFIER", lineNum)>>

\* this.tokenizeLine(line, lineNum); this.tokens.push({ type: 'NEWLINE', ... })
LexText ==
    /\ lexer.state = "text"
    /\ lexer' = [lexer EXCEPT !.tokens = @ \o LineTokens(LexLine, lexer.i)
                                                \o <<Token("NEWLINE", lexer.i)>>,
                              !.i = @ + 1,
                              !.state = "line"]
    /\ LexerOnly

\* After the last line: while (this.indentStack.length > 1) DEDENT and pop;
\* return this.tokens.  The DEDENT tokens of the end have no line, 0 here.
LexEnd ==
    /\ lexer.state = "line"
    /\ lexer.i > Len(lexer.lines)
    /\ IF Len(lexer.indentStack) > 1
       THEN lexer' = [lexer EXCEPT !.tokens = Append(@, Token("DEDENT", 0)),
                                   !.indentStack = SubSeq(@, 1, Len(@) - 1),
                                   !.pops = @ + 1]
       ELSE lexer' = [lexer EXCEPT !.state = "returned"]
    /\ LexerOnly

LexNext ==
    \/ LexSkip
    \/ LexIndent
    \/ LexDedent
    \/ LexText
    \/ LexEnd

LexSpec == LexInit /\ [][LexNext]_vars

-----------------------------------------------------------------------------
(* Lexer.tokenizeLine of src/mesh/parser.js.                                  *)
(* The line is a sequence of characters; the alternatives of the regex that   *)
(* these characters can start are the comment, the string literal, the       *)
(* object identifier, the identifier and the one-character symbol.           *)
(* lexer.lastIndex is regex.lastIndex + 1; skipped is history: the positions *)
(* of the characters other than blanks that exec passed over.                *)

Characters == {"\"", "#", "a", "-", " "}

ScanLines == UNION {[1..n -> Characters] : n \in 0..MaxChars}

\* [a-zA-Z_][a-zA-Z0-9_]* from q: the last position of the run of letters
LetterRunEnd(line, q) ==
    CHOOSE e \in q..Len(line) :
        /\ \A j \in q..e : line[j] = "a"
        /\ (e = Len(line) \/ line[e + 1] # "a")

\* The last position of the match of the regex that starts at q, 0 when no
\* alternative matches there.  The alternatives are tried in their order.
MatchEnd(line, q) ==
    CASE line[q] = "-" /\ q < Len(line) /\ line[q + 1] = "-" -> Len(line)
      [] line[q] = "\"" /\ (\E r \in (q + 1)..Len(line) : line[r] = "\"") ->
            CHOOSE r \in (q + 1)..Len(line) :
                line[r] = "\"" /\ \A j \in (q + 1)..(r - 1) : line[j] # "\""
      [] line[q] = "#" /\ q < Len(line) /\ line[q + 1] = "a"
         /\ LetterRunEnd(line, q + 1) < Len(line)
         /\ line[LetterRunEnd(line, q + 1) + 1] = "#" -> LetterRunEnd(line, q + 1) + 1
      [] line[q] = "a" -> LetterRunEnd(line, q)
      [] line[q] = "-" -> q
      [] OTHER -> 0

\* regex.exec(line) from lastIndex p: the position of the next match, 0 for null
Exec(line, p) ==
    IF \E q \in p..Len(line) : MatchEnd(line, q) > 0
    THEN CHOOSE q \in p..Len(line) :
            MatchEnd(line, q) > 0 /\ \A j \in p..(q - 1) : MatchEnd(line, j) = 0
    ELSE 0

\* The token pushed for the match val
LineToken(val) ==
    CASE Head(val) = "\"" -> [type |-> "STR_LITERAL", value |-> SubSeq(val, 2, Len(val) - 1)]
      [] Head(val) = "#" -> [type |-> "OBJ_IDENTIFIER", value |-> SubSeq(val, 2, Len(val) - 1)]
      [] Head(val) = "a" -> [type |-> "IDENTIFIER", value |-> val]
      [] OTHER -> [type |-> "SYMBOL", value |-> val]

PassedOver(line, from, to) == {j \in from..to : line[j] # " "}

\* new Lexer(line), tokenizeLine(line, 1) entered.
ScanInit ==
    /\ Constructed
    /\ squared = SquaredIdle
    /\ lexer \in {[line |-> line, lastIndex |-> 1, tokens |-> <<>>, skipped |-> {},
                   state |-> "scan"] : line \in ScanLines}

\* exec finds a match that is not a comment: its token is pushed
ScanToken ==
    /\ lexer.state = "scan"
    /\ LET q == Exec(lexer.line, lexer.lastIndex)
       IN /\ q > 0
          /\ ~(lexer.line[q] = "-" /\ MatchEnd(lexer.line, q) > q)
          /\ lexer' = [lexer EXCEPT
                !.tokens = Append(@, LineToken(SubSeq(lexer.line, q, MatchEnd(lexer.line, q)))),
                !.skipped = @ \cup PassedOver(lexer.line, lexer.lastIndex, q - 1),
                !.lastIndex = MatchEnd(lexer.line, q) + 1]
    /\ LexerOnly

\* exec finds a comment: break
ScanComment ==
    /\ lexer.state = "scan"
    /\ LET q == Exec(lexer.line, lexer.lastIndex)
       IN /\ q > 0
          /\ lexer.line[q] = "-" /\ MatchEnd(lexer.line, q) > q
          /\ lexer' = [lexer EXCEPT
                !.skipped = @ \cup PassedOver(lexer.line, lexer.lastIndex, q - 1),
                !.lastIndex = Len(lexer.line) + 1,
                !.state = "scanned"]
    /\ LexerOnly

\* exec returns null: the loop ends and tokenizeLine returns
ScanReturn ==
    /\ lexer.state = "scan"
    /\ Exec(lexer.line, lexer.lastIndex) = 0
    /\ lexer' = [lexer EXCEPT
          !.skipped = @ \cup PassedOver(lexer.line, lexer.lastIndex, Len(lexer.line)),
          !.lastIndex = Len(lexer.line) + 1,
          !.state = "scanned"]
    /\ LexerOnly

ScanNext ==
    \/ ScanToken
    \/ ScanComment
    \/ ScanReturn

ScanSpec == ScanInit /\ [][ScanNext]_vars

-----------------------------------------------------------------------------
(* Parser of src/mesh/parser.js.  pos is this.pos, the number of tokens      *)
(* consumed; a parse function yields Ok(pos, node) when it returns node and  *)
(* Fail(pos) when it throws.  The value of a NUMBER token is its sequence of *)
(* digits, a module name the sequence of the token values it is made of.    *)

NoToken == [type |-> "", line |-> 0]

\* token.value, "" for the tokens that have none (INDENT, DEDENT, NEWLINE)
ValueOf(t) == IF "value" \in DOMAIN t THEN t.value ELSE ""

Peek(toks, pos, n) == IF pos + n < Len(toks) THEN toks[pos + n + 1] ELSE NoToken

Check(toks, pos, type, value) ==
    LET t == Peek(toks, pos, 0)
    IN  t.type = type /\ (value = "" \/ ValueOf(t) = value)

Ok(pos, node) == [ok |-> TRUE, pos |-> pos, node |-> node]
Fail(pos) == [ok |-> FALSE, pos |-> pos, node |-> <<>>]

\* The result r of a parse function, computed once
The(S) == CHOOSE x \in S : TRUE

\* What follows a call that yielded r: the exception goes on when it threw,
\* Rest is parsed from its result when it returned.
Then(r, Rest(_)) == The({IF x.ok THEN Rest(x) ELSE x : x \in {r}})

\* consume(type, value) after r: the token is passed, r's node is kept
Expect(toks, r, type, value) ==
    Then(r, LAMBDA x : IF Check(toks, x.pos, type, value) THEN Ok(x.pos + 1, x.node)
                       ELSE Fail(x.pos))

RECURSIVE ParseFloat(_)
ParseFloat(digits) ==
    IF digits = <<>> THEN 0
    ELSE 10 * ParseFloat(SubSeq(digits, 1, Len(digits) - 1)) + digits[Len(digits)]

\* The multiplicative operators are parsed at the level of the additive ones
OperatorLevelFlat(t) ==
    IF t.type = "IDENTIFIER" /\ t.value = "or" THEN 1
    ELSE IF t.type = "IDENTIFIER" /\ t.value = "and" THEN 2
    ELSE IF t.type = "SYMBOL" /\ t.value \in {"==", "!=", "<", ">", "<=", ">="} THEN 3
    ELSE IF t.type = "SYMBOL" /\ t.value \in {"+", "-", "*", "/"} THEN 4
    ELSE 0

\* The function whose while loop takes the operator token t: 1 parseLogicalOr,
\* 2 parseLogicalAnd, 3 parseComparison, 4 parseAdditive, 5
\* parseMultiplicative; 0 when no loop takes it.
OperatorLevel(t) ==
    IF t.type = "IDENTIFIER" /\ t.value = "or" THEN 1
    ELSE IF t.type = "IDENTIFIER" /\ t.value = "and" THEN 2
    ELSE IF t.type = "SYMBOL" /\ t.value \in {"==", "!=", "<", ">", "<=", ">="} THEN 3
    ELSE IF t.type = "SYMBOL" /\ t.value \in {"+", "-"} THEN 4
    ELSE IF t.type = "SYMBOL" /\ t.value \in {"*", "/"} THEN 5
    ELSE 0

Levels == 5

RECURSIVE ParseBinary(_, _, _), BinaryLoop(_, _, _), ParsePrimary(_, _),
          ParseSuffix(_, _), ListLoop(_, _, _)

\* parseLogicalOr (lvl 1) ... parseMultiplicative (lvl 5): the operand is
\* parsed by the next function, parsePrimary after the last, then the loop
ParseBinary(toks, pos, lvl) ==
    IF lvl > Levels THEN ParsePrimary(toks, pos)
    ELSE Then(ParseBinary(toks, pos, lvl + 1), LAMBDA left : BinaryLoop(toks, lvl, left))

\* while (an operator of the level is next) { op; right; left = {left, op, right} }
BinaryLoop(toks, lvl, left) ==
    IF OperatorLevel(Peek(toks, left.pos, 0)) # lvl THEN left
    ELSE Then(ParseBinary(toks, left.pos + 1, lvl + 1), LAMBDA right :
             BinaryLoop(toks, lvl,
                 Ok(right.pos, BinaryExpression(left.node, Peek(toks, left.pos, 0).value,
                                                right.node))))

ParseExpression(toks, pos) == ParseBinary(toks, pos, 1)

\* do { push(parseExpression()) } while (match(','))
ListLoop(toks, pos, acc) ==
    Then(ParseBinary(toks, pos, 1), LAMBDA e :
        IF Check(toks, e.pos, "SYMBOL", ",")
        THEN ListLoop(toks, e.pos + 1, Append(acc, e.node))
        ELSE Ok(e.pos, Append(acc, e.node)))

\* The elements up to the closing symbol, which is then consumed
ParseList(toks, pos, closer) ==
    Expect(toks, IF Check(toks, pos, "SYMBOL", closer) THEN Ok(pos, <<>>)
                 ELSE ListLoop(toks, pos, <<>>),
           "SYMBOL", closer)

ParsePrimary(toks, pos) ==
    LET t == Peek(toks, pos, 0)
    IN  IF Check(toks, pos, "SYMBOL", "(")
        THEN Expect(toks, ParseBinary(toks, pos + 1, 1), "SYMBOL", ")")
        ELSE IF Check(toks, pos, "SYMBOL", "[")
        THEN Then(ParseList(toks, pos + 1, "]"), LAMBDA l : Ok(l.pos, ArrayLiteral(l.node)))
        ELSE IF t.type = "NUMBER_LITERAL" THEN Ok(pos + 1, Literal(Num(t.value)))
        ELSE IF t.type = "NUMBER" THEN Ok(pos + 1, Literal(Num(ParseFloat(t.value))))
        ELSE IF t.type = "STR_LITERAL" THEN Ok(pos + 1, Literal(Str(t.value)))
        ELSE IF t.type = "BOOL_LITERAL" THEN Ok(pos + 1, Literal(Bool(t.value)))
        ELSE IF t.type = "IDENTIFIER"
        THEN IF t.value = "eval"
             THEN Then(Expect(toks, Ok(pos + 1, <<>>), "SYMBOL", "("), LAMBDA open :
                  Then(Expect(toks, ParseBinary(toks, open.pos, 1), "SYMBOL", ")"),
                       LAMBDA a : Ok(a.pos, EvalCall(a.node))))
             ELSE ParseSuffix(toks, Ok(pos + 1, Identifier(t.value)))
        ELSE IF t.type = "OBJ_IDENTIFIER"
        THEN ParseSuffix(toks, Ok(pos + 1, Identifier(t.value)))
        ELSE Fail(pos)

\* consumeAny() after a `.` takes whatever token comes next, and throws
\* (the value of undefined) when there is none.
ParseSuffix(toks, r) ==
    IF Check(toks, r.pos, "SYMBOL", ".")
    THEN IF r.pos + 1 < Len(toks)
         THEN ParseSuffix(toks, Ok(r.pos + 2,
                  MemberExpression(r.node, ValueOf(Peek(toks, r.pos, 1)))))
         ELSE Fail(r.pos + 2)
    ELSE IF Check(toks, r.pos, "SYMBOL", "(")
    THEN Then(ParseList(toks, r.pos + 1, ")"), LAMBDA l :
             ParseSuffix(toks, Ok(l.pos, CallExpression(r.node, l.node))))
    ELSE r

\* The block is left without its DEDENT
SuiteEndLeft(toks, b) == b

\* this.consume('DEDENT') after the parseBlock() of a body
SuiteEnd(toks, b) == Expect(toks, b, "DEDENT", "")

RECURSIVE ParseBlock(_, _, _), ParseStatement(_, _), ParseElifs(_, _, _)

\* consume('NEWLINE'); consume('INDENT'); parseBlock(); consume('DEDENT')
Suite(toks, pos) ==
    Then(Expect(toks, Expect(toks, Ok(pos, <<>>), "NEWLINE", ""), "INDENT", ""), LAMBDA h :
    Then(ParseBlock(toks, h.pos, <<>>), LAMBDA b : SuiteEnd(toks, b)))

\* parseBlock, with the statements pushed so far
ParseBlock(toks, pos, statements) ==
    IF pos < Len(toks) /\ ~Check(toks, pos, "DEDENT", "")
    THEN IF Check(toks, pos, "NEWLINE", "") THEN ParseBlock(toks, pos + 1, statements)
         ELSE Then(ParseStatement(toks, pos), LAMBDA stmt :
                  ParseBlock(toks, stmt.pos, Append(statements, stmt.node)))
    ELSE Ok(pos, statements)

\* An expression from pos and the body that follows it
Headed(toks, pos) ==
    Then(ParseExpression(toks, pos), LAMBDA test :
    Then(Suite(toks, test.pos), LAMBDA body :
        Ok(body.pos, Elif(test.node, body.node))))

\* while (this.match('IDENTIFIER', 'elif')) { ... elifs.push(...) }
ParseElifs(toks, pos, elifs) ==
    IF Check(toks, pos, "IDENTIFIER", "elif")
    THEN Then(Headed(toks, pos + 1), LAMBDA e :
             ParseElifs(toks, e.pos, Append(elifs, e.node)))
    ELSE Ok(pos, elifs)

ParseIf(toks, pos, line) ==
    Then(Headed(toks, pos + 1), LAMBDA first :
    Then(ParseElifs(toks, first.pos, <<>>), LAMBDA elifs :
    Then(IF Check(toks, elifs.pos, "IDENTIFIER", "else")
         THEN Suite(toks, elifs.pos + 1)
         ELSE Ok(elifs.pos, <<>>), LAMBDA alternate :
        Ok(alternate.pos, IfStatement(line, first.node.test, first.node.body,
                                      elifs.node, alternate.node)))))

ParseWhile(toks, pos, line) ==
    Then(Headed(toks, pos + 1), LAMBDA h :
        Ok(h.pos, WhileStatement(line, h.node.test, h.node.body)))

ParseFor(toks, pos, line) ==
    Then(Expect(toks, Expect(toks, Ok(pos + 1, <<>>), "IDENTIFIER", ""), "SYMBOL", "="),
         LAMBDA eq :
    Then(Expect(toks, ParseExpression(toks, eq.pos), "IDENTIFIER", "to"), LAMBDA start :
    Then(Headed(toks, start.pos), LAMBDA h :
        Ok(h.pos, ForStatement(line, ValueOf(Peek(toks, pos, 1)), start.node,
                               h.node.test, h.node.body)))))

RECURSIVE ParamLoop(_, _, _)
\* do { params.push(consume('IDENTIFIER').value) } while (match(','))
ParamLoop(toks, pos, params) ==
    Then(Expect(toks, Ok(pos, <<>>), "IDENTIFIER", ""), LAMBDA p :
        IF Check(toks, p.pos, "SYMBOL", ",")
        THEN ParamLoop(toks, p.pos + 1, Append(params, ValueOf(Peek(toks, pos, 0))))
        ELSE Ok(p.pos, Append(params, ValueOf(Peek(toks, pos, 0)))))

ParseFunction(toks, pos, line) ==
    Then(Expect(toks, Expect(toks, Ok(pos + 1, <<>>), "IDENTIFIER", ""), "SYMBOL", "("),
         LAMBDA open :
    Then(Expect(toks, IF Check(toks, open.pos, "SYMBOL", ")") THEN Ok(open.pos, <<>>)
                      ELSE ParamLoop(toks, open.pos, <<>>), "SYMBOL", ")"), LAMBDA params :
    Then(Suite(toks, params.pos), LAMBDA body :
        Ok(body.pos, FunctionDeclaration(line, ValueOf(Peek(toks, pos, 1)),
                                         params.node, body.node)))))

ParseReturn(toks, pos, line) ==
    Then(Expect(toks, Ok(pos + 1, <<>>), "SYMBOL", "="), LAMBDA eq :
    Then(Expect(toks, ParseExpression(toks, eq.pos), "NEWLINE", ""), LAMBDA value :
        Ok(value.pos, ReturnStatement(line, value.node))))

RECURSIVE ImportLoop(_, _, _)
\* while (this.pos < this.tokens.length && !this.check('NEWLINE'))
\*     moduleName += this.consumeAny().value
ImportLoop(toks, pos, moduleName) ==
    IF pos < Len(toks) /\ ~Check(toks, pos, "NEWLINE", "")
    THEN ImportLoop(toks, pos + 1, Append(moduleName, ValueOf(Peek(toks, pos, 0))))
    ELSE Ok(pos, moduleName)

ParseImport(toks, pos, line) ==
    Then(ImportLoop(toks, pos + 1, <<>>), LAMBDA name :
    Then(IF name.pos < Len(toks) THEN Expect(toks, name, "NEWLINE", "") ELSE name,
         LAMBDA end : Ok(end.pos, ImportStatement(line, name.node))))

ParseObjectDefinition(toks, pos, line) ==
    LET derived == Check(toks, pos, "IDENTIFIER", "")
    IN  Then(IF derived THEN Expect(toks, Ok(pos + 1, <<>>), "OBJ_IDENTIFIER", "")
             ELSE Ok(pos + 1, <<>>), LAMBDA name :
        Then(Expect(toks, Expect(toks, name, "SYMBOL", ""), "SYMBOL", "["), LAMBDA open :
        Then(Suite(toks, open.pos), LAMBDA properties :
        Then(Expect(toks, Expect(toks, properties, "SYMBOL", "]"), "NEWLINE", ""),
             LAMBDA close :
            Ok(close.pos,
               [ObjectDefinition(line, ValueOf(Peek(toks, pos, 0)),
                                 IF derived THEN ValueOf(Peek(toks, pos, 1)) ELSE "",
                                 properties.node)
                   EXCEPT !.operator = ValueOf(Peek(toks, name.pos, 0))])))))

ParseAssignment(toks, pos, line) ==
    Then(Expect(toks, Ok(pos + 1, <<>>), "SYMBOL", ""), LAMBDA op :
    Then(Expect(toks, ParseExpression(toks, op.pos), "NEWLINE", ""), LAMBDA value :
        Ok(value.pos, Assignment(line, ValueOf(Peek(toks, pos, 0)),
                                 ValueOf(Peek(toks, pos, 1)), value.node))))

ParseStatement(toks, pos) ==
    LET line == Peek(toks, pos, 0).line
        next == Peek(toks, pos, 1)
        word(w) == Check(toks, pos, "IDENTIFIER", w)
        ended(node) == Then(Expect(toks, Ok(pos + 1, <<>>), "NEWLINE", ""),
                            LAMBDA r : Ok(r.pos, node))
    IN  IF word("function") THEN ParseFunction(toks, pos, line)
        ELSE IF word("if") THEN ParseIf(toks, pos, line)
        ELSE IF word("while") THEN ParseWhile(toks, pos, line)
        ELSE IF word("for") THEN ParseFor(toks, pos, line)
        ELSE IF word("return") THEN ParseReturn(toks, pos, line)
        ELSE IF word("import") THEN ParseImport(toks, pos, line)
        ELSE IF word("break") THEN ended(BreakStatement(line))
        ELSE IF word("continue") THEN ended(ContinueStatement(line))
        ELSE IF Check(toks, pos, "OBJ_IDENTIFIER", "")
                \/ (Check(toks, pos, "IDENTIFIER", "") /\ next.type = "OBJ_IDENTIFIER")
        THEN ParseObjectDefinition(toks, pos, line)
        ELSE IF Check(toks, pos, "IDENTIFIER", "")
                /\ next.type = "SYMBOL" /\ next.value \in {"=", "+=", "-=", "*=", "/="}
        THEN ParseAssignment(toks, pos, line)
        ELSE Then(Expect(toks, ParseExpression(toks, pos), "NEWLINE", ""), LAMBDA expr :
                 Ok(expr.pos, ExpressionStatement(line, expr.node)))

\* The lines given to the Lexer whose tokens are parsed: a line of code with
\* its tokens.  The statements are `x`, `if x`, `x.` and `(x)`, at three
\* widths of indentation.
Word(type, value) == [type |-> type, value |-> value]

Code(lead, words) == [lead |-> lead, text |-> "x", words |-> words]

StatementWords == {
    << Word("IDENTIFIER", "x") >>,
    << Word("IDENTIFIER", "if"), Word("IDENTIFIER", "x") >>,
    << Word("IDENTIFIER", "x"), Word("SYMBOL", ".") >>,
    << Word("SYMBOL", "("), Word("IDENTIFIER", "x"), Word("SYMBOL", ")") >> }

ParseLeads == { <<>>, <<" ">>, <<" ", " ">> }

ParseLines == {Code(lead, words) : lead \in ParseLeads, words \in StatementWords}

\* One line `a op1 b op2 c`, for each pair of binary operators
Operators == {Word("IDENTIFIER", "or"), Word("IDENTIFIER", "and")}
             \cup {Word("SYMBOL", s) : s \in {"==", "<", "+", "-", "*", "/"}}

ExpressionLines ==
    {Code(<<>>, << Word("IDENTIFIER", "a"), op1, Word("IDENTIFIER", "b"), op2,
                   Word("IDENTIFIER", "c") >>) : op1 \in Operators, op2 \in Operators}

\* `import a.b.c`, `import a` and `x = 12`
OtherLines == {
    Code(<<>>, << Word("IDENTIFIER", "import"), Word("IDENTIFIER", "a"), Word("SYMBOL", "."),
                  Word("IDENTIFIER", "b"), Word("SYMBOL", "."), Word("IDENTIFIER", "c") >>),
    Code(<<>>, << Word("IDENTIFIER", "import"), Word("IDENTIFIER", "a") >>),
    Code(<<>>, << Word("IDENTIFIER", "x"), Word("SYMBOL", "="), Word("NUMBER", <<1, 2>>) >>) }

ParseInputs ==
    UNION {[1..n -> ParseLines] : n \in 0..MaxLines}
    \cup {<<l>> : l \in ExpressionLines \cup OtherLines}

\* new Lexer(input), tokenize() entered; no Parser yet.
ParseInit ==
    /\ Constructed
    /\ squared = SquaredIdle
    /\ lexer \in {[lines |-> input, i |-> 1, indentStack |-> <<0>>, tokens |-> <<>>,
                   state |-> "line", pushes |-> 0, pops |-> 0] : input \in ParseInputs}

\* new Parser(tokens).parse() with the tokens tokenize() has returned
ParseTokens ==
    /\ lexer.state = "returned"
    /\ parser.state = "idle"
    /\ \E r \in {ParseBlock(lexer.tokens, 0, <<>>)} :
           parser' = [state |-> IF r.ok THEN "returned" ELSE "thrown",
                      pos |-> r.pos,
                      body |-> r.node]
    /\ UNCHANGED <<scopes, tasks, stop, opCounter, console, prog, runs, trace,
                   evalCache, compiled, lexer, squared, output, unyielded, sqrd, mesh>>

ParseNext ==
    \/ LexIndent
    \/ LexDedent
    \/ LexText
    \/ LexEnd
    \/ ParseTokens

ParseSpec == ParseInit /\ [][ParseNext]_vars

-----------------------------------------------------------------------------
(* The first Lexer of src/unnamed/part_000 (the bracket dialect, `#`        *)
(* comments), which counts columns.  The input is its lines, joined by      *)
(* "\n"; a line is its leading whitespace and the kind of what follows: ""  *)
(* (nothing), "#" (a comment) or "x" (code).  handleIndentation is called   *)
(* once for each line: at the start of tokenize and after each "\n".        *)

ColumnLeads == { <<>>, <<" ", " ">>, <<"\t">>, <<" ", " ", " ", " ">>, <<"\t", "\t">> }

ColumnLines ==
    {Line(lead, "x") : lead \in ColumnLeads}
    \cup {Line(<<>>, ""), Line(<<" ", " ">>, "#")}

ColumnInputs == UNION {[1..n -> ColumnLines] : n \in 1..MaxLines}

\* The DEDENT tokens of the loop `while (spaces < this.currentIndent)`:
\* one for each 4 columns, currentIndent not going below 0
RECURSIVE Dedents(_, _)
Dedents(spaces, currentIndent) ==
    IF spaces < currentIndent
    THEN 1 + Dedents(spaces, IF currentIndent - 4 < 0 THEN 0 ELSE currentIndent - 4)
    ELSE 0

\* new Lexer(input), tokenize() entered.
ColumnInit ==
    /\ Constructed
    /\ squared = SquaredIdle
    /\ lexer \in {[lines |-> input, i |-> 1, currentIndent |-> 0, tokens |-> <<>>,
                   state |-> "indent"] : input \in ColumnInputs}

\* handleIndentation: the columns of the leading whitespace are counted; a
\* line that ends or starts a comment there is passed (the last line of the
\* input does not end with "\n"); otherwise INDENT, or the DEDENT tokens.
HandleIndentation ==
    /\ lexer.state = "indent"
    /\ LET line == lexer.lines[lexer.i]
           spaces == Indent(line.lead)
           passed == line.text = "#" \/ (line.text = "" /\ lexer.i < Len(lexer.lines))
       IN  lexer' =
             IF passed THEN [lexer EXCEPT !.state = "text"]
             ELSE IF spaces > lexer.currentIndent
             THEN [lexer EXCEPT !.tokens = Append(@, [type |-> "INDENT",
                                                     count |-> spaces - lexer.currentIndent]),
                                !.currentIndent = spaces,
                                !.state = "text"]
             ELSE [lexer EXCEPT !.tokens = @ \o [k \in 1..Dedents(spaces, lexer.currentIndent)
                                                    |-> [type |-> "DEDENT"]],
                                !.currentIndent = spaces,
                                !.state = "text"]
    /\ LexerOnly

\* The loop of tokenize up to the end of the line: the token of the code, no
\* token for a comment, and NEWLINE for the "\n" that ends the line
ColumnText ==
    /\ lexer.state = "text"
    /\ LET line == lexer.lines[lexer.i]
           code == IF line.text = "x" THEN <<[type |-> "IDENTIFIER", value |-> "x"]>>
                   ELSE <<>>
       IN  lexer' =
             IF lexer.i < Len(lexer.lines)
             THEN [lexer EXCEPT !.tokens = @ \o code \o <<[type |-> "NEWLINE"]>>,
                                !.i = @ + 1,
                                !.state = "indent"]
             ELSE [lexer EXCEPT !.tokens = @ \o code, !.state = "end"]
    /\ LexerOnly

\* while (this.currentIndent > 0) { DEDENT; this.currentIndent -= 4 }; return
ColumnEnd ==
    /\ lexer.state = "end"
    /\ lexer' = IF lexer.currentIndent > 0
                THEN [lexer EXCEPT !.tokens = Append(@, [type |-> "DEDENT"]),
                                   !.currentIndent = @ - 4]
                ELSE [lexer EXCEPT !.state = "returned"]
    /\ LexerOnly

ColumnNext ==
    \/ HandleIndentation
    \/ ColumnText
    \/ ColumnEnd

ColumnSpec == ColumnInit /\ [][ColumnNext]_vars

-----------------------------------------------------------------------------
(* Properties *)

Globals == scopes[1].values

Global(name) == IF name \in DOMAIN Globals THEN Globals[name] ELSE Undefined

\* The run has settled; it has settled without an exception.
Finished == runs > 0 /\ Idle
Succeeded == Finished /\ tasks[1].status = "done"

Occurs(e) == \E k \in DOMAIN trace : trace[k] = e
Count(e) == Cardinality({k \in DOMAIN trace : trace[k] = e})

\* Statement `line` of the program has been started in this run.
Started(line) == Occurs(<<"stmt", line>>)

\* The nearest frame that binds name, walking from s outward; 0 when none does.
RECURSIVE Owner(_, _, _)
Owner(sc, s, name) ==
    IF name \in DOMAIN sc[s].values THEN s
    ELSE IF sc[s].parent = 0 THEN 0
    ELSE Owner(sc, sc[s].parent, name)

\* Task t takes the step in which its Assignment stores the value.
Stores(t) ==
    /\ At(t, "stmt", "Assignment")
    /\ Top(tasks[t]).pc = "value"
    /\ tasks'[t] # tasks[t]

\* The store of `n = e` in frame F changes the binding of n in the nearest
\* frame of F's chain that has one, or adds one to F when none has, and
\* nothing else.
StoreWalksChain(t) ==
    LET f == Top(tasks[t])
        n == f.node.name
        o == Owner(scopes, f.scope, n)
        target == IF o = 0 THEN f.scope ELSE o
    IN  /\ Len(scopes') = Len(scopes)
        /\ \A s \in DOMAIN scopes :
              /\ scopes'[s].parent = scopes[s].parent
              /\ DOMAIN scopes'[s].values =
                     DOMAIN scopes[s].values \cup (IF s = target THEN {n} ELSE {})
              /\ \A k \in DOMAIN scopes[s].values :
                     (s # target \/ k # n) => scopes'[s].values[k] = scopes[s].values[k]
        /\ scopes'[target].values[n] = AssignedValue(scopes, f.scope, f.node, tasks[t].val)

\* The values of g after `g = 4`, `g <op> 2` in f and `g = g * 2` in h, per
\* operator of AssignOps.
AssignExpected == <<4, 12, 4, 16, 4>>

\* The assign program: when print is reached, the global g has the value the
\* function bodies gave it and r is the loc that h changed in f's frame.
CallerSeesStore ==
    (prog.fam = "assign" /\ Started(13)) =>
        /\ Global("g") = Num(AssignExpected[prog.n])
        /\ Global("r") = Num(6)
        /\ "loc" \notin DOMAIN Globals

\* C1: an Assignment `n = e` in frame F updates the nearest binding of n on
\* the chain from F to the root and creates no binding; when no frame of the
\* chain binds n it creates the binding in F.  An assignment in a function
\* body to a global variable changes the global, and the caller sees it.
C1_AssignmentWalksChain ==
    /\ [][\A t \in DOMAIN tasks : Stores(t) => StoreWalksChain(t)]_vars
    /\ []CallerSeesStore

\* The assign program with += has printed: g was 4, f added 2 to the global,
\* h doubled it.
C1_Witness ==
    /\ prog = Desc("assign", 2, <<>>)
    /\ Succeeded
    /\ Global("g") = Num(12)
    /\ console # <<>>


\* Task t takes the step that executes its FunctionDeclaration.
Declares(t) ==
    /\ At(t, "stmt", "FunctionDeclaration")
    /\ tasks'[t] # tasks[t]

\* The declaration copies no frame, and the closure it binds refers to the
\* frame the declaration is executed in.
CapturesDefiningScope(t) ==
    LET f == Top(tasks[t])
    IN  /\ Len(scopes') = Len(scopes)
        /\ f.node.name \in DOMAIN scopes'[f.scope].values
        /\ scopes'[f.scope].values[f.node.name].t = "function"
        /\ scopes'[f.scope].values[f.node.name].scope = f.scope

\* The frame of a pending call of a script function is a child of the frame
\* its closure refers to.
CallExtendsCapturedScope ==
    \A t \in DOMAIN tasks : \A p \in DOMAIN tasks[t].stack :
        LET f == tasks[t].stack[p]
        IN  (f.k = "expr" /\ f.node.type = "CallExpression" /\ f.pc = "call")
                => scopes[f.i].parent = f.acc.fn.scope

\* The closure programs: f returns the v of its call time (2, then 3; 5 after
\* set(5)); the counter keeps counting in the frame of the call that made it.
ClosureSeesLaterValues ==
    prog.fam = "closure" =>
        CASE prog.n = 1 ->
                /\ Started(6) => Global("a") = Num(2)
                /\ (Succeeded /\ Started(7)) => Global("b") = Num(3)
          [] prog.n = 2 ->
                /\ Started(9) => Global("a") = Num(1)
                /\ (Succeeded /\ Started(9)) => Global("b") = Num(2)
          [] OTHER ->
                (Succeeded /\ Started(7)) => Global("a") = Num(5)

\* C2: a function that reads a variable v of its defining scope observes, on
\* every call, the value v holds at the time of the call: the defining scope
\* is captured by reference, not copied when the function is declared.
C2_ClosureByReference ==
    /\ [][\A t \in DOMAIN tasks : Declares(t) => CapturesDefiningScope(t)]_vars
    /\ [](CallExtendsCapturedScope /\ ClosureSeesLaterValues)

\* f was declared when v was 1 and has been called when v was 2 and when v
\* was 3.
C2_Witness ==
    /\ prog = Desc("closure", 1, <<>>)
    /\ Succeeded
    /\ Count(<<"call", "f">>) = 2
    /\ Global("a") = Num(2)
    /\ Global("b") = Num(3)

\* The key executeBlock finds in the frame for a signal.
SentinelOf(kind) ==
    CASE kind = "return" -> "__ret__"
      [] kind = "break" -> "__break__"
      [] OTHER -> "__continue__"

\* Frame p of a stack, a block a statement has signalled in, has started no
\* statement since: what is above it is the if statement (or, for a return,
\* the loop) the signal came through, with the signalled block it ran.
NothingStartedSince(st, p) ==
    p < Len(st) =>
        /\ st[p + 1].k = "stmt"
        /\ st[p + 1].node = st[p].node.body[st[p].i]
        /\ \/ st[p + 1].node.type = "IfStatement" /\ st[p + 1].pc = "block"
           \/ /\ st[p + 1].node.type \in {"WhileStatement", "ForStatement"}
              /\ st[p + 1].pc = "body"
              /\ st[p].sig = "return"
              /\ st[p + 1].sig = "return"
        /\ p + 2 <= Len(st) => (st[p + 2].k = "block" /\ st[p + 2].sig = st[p].sig)

\* C3: when a statement of a block produces a Return, Break or Continue
\* signal, directly or inside a nested if/elif/else block of the same frame,
\* no later statement of that block is executed and the signal is visible to
\* the construct that ran the block (its key is in the block's frame).
C3_SignalStopsBlock ==
    \A t \in DOMAIN tasks : \A p \in DOMAIN tasks[t].stack :
        LET st == tasks[t].stack
        IN  (st[p].k = "block" /\ st[p].sig # "") =>
                /\ st[p].pc = "after"
                /\ tasks[t].status = "run"
                /\ ScopeHas(scopes, st[p].scope, SentinelOf(st[p].sig))
                /\ NothingStartedSince(st, p)

\* A block with statements left has been signalled through a nested if whose
\* block has returned: the if statement is about to return to it.
C3_Witness ==
    \E t \in DOMAIN tasks :
        /\ Running(t)
        /\ Len(tasks[t].stack) >= 2
        /\ LET st == tasks[t].stack
               b == st[Len(st) - 1]
           IN  /\ Top(tasks[t]).k = "stmt"
               /\ Top(tasks[t]).node.type = "IfStatement"
               /\ b.k = "block"
               /\ b.sig \in {"return", "break", "continue"}
               /\ b.i < Len(b.node.body)

\* Line l of a loop program is a break statement of the inner loop's body.
IsBreakLine(l) ==
    /\ l \div 10 \in DOMAIN prog.body
    /\ \/ prog.body[l \div 10] = "break" /\ l % 10 = 0
       \/ prog.body[l \div 10] = "elif" /\ l % 10 = 2

\* The k-th event of the run is the start of a break statement of the inner
\* loop's body.
BreakAt(k) == trace[k][1] = "stmt" /\ IsBreakLine(trace[k][2])

\* C4: a break executed in the body of a while loop ends the nearest
\* enclosing while loop and only it: the test is not evaluated again, no
\* further body statement runs, execution continues with the statement that
\* follows the loop (line 90 of the loop programs), and an enclosing loop
\* keeps iterating (two iterations of the outer loops of the loop programs).
C4_BreakEndsNearestWhile ==
    (prog.fam = "loop" /\ prog.n \in {1, 3, 4}) =>
        /\ \A k \in DOMAIN trace : BreakAt(k) =>
              /\ k + 1 <= Len(trace) => trace[k + 1] = <<"broke", 3>>
              /\ k + 2 <= Len(trace) => trace[k + 2] = <<"stmt", 90>>
              /\ Finished => k + 2 <= Len(trace)
        /\ (Finished /\ prog.n = 3) => Count(<<"stmt", 7>>) = 2
        /\ (Finished /\ prog.n = 4) => Count(<<"iter", 6>>) = 2

\* C5: a break executed in the body of a range for loop ends the loop: no
\* further iteration and no further body statement runs, execution continues
\* with the statement that follows the loop (line 90 of the loop programs).
C5_BreakEndsFor ==
    (prog.fam = "loop" /\ prog.n = 2) =>
        \A k \in DOMAIN trace : BreakAt(k) =>
            /\ k + 1 <= Len(trace) => trace[k + 1] = <<"stmt", 90>>
            /\ Finished => k + 1 <= Len(trace)

\* C6: a continue skips only the remaining statements of the iteration it is
\* executed in: a block execution in which no statement has signalled (a
\* later iteration of the loop, the block the loop is a statement of) is not
\* cut short by the continue.
C6_ContinueSkipsOneIteration ==
    \A t \in DOMAIN tasks :
        (/\ At(t, "block", "Block")
         /\ Top(tasks[t]).pc = "after"
         /\ Top(tasks[t]).sig = ""
         /\ Top(tasks[t]).i < Len(Top(tasks[t]).node.body))
            => ~ScopeHas(scopes, Top(tasks[t]).scope, "__continue__")

\* C7: a call of a script function yields the value of the return statement
\* it executed, and null (no value) when its body finished without executing
\* one, whatever the last statement of the body was.
C7_CallYieldsReturnOrNull ==
    \A t \in DOMAIN tasks :
        (At(t, "expr", "CallExpression") /\ Top(tasks[t]).pc = "call") =>
            LET fnScope == Top(tasks[t]).i
            IN  IF ScopeHas(scopes, fnScope, "__ret__")
                THEN tasks[t].val = scopes[fnScope].values["__ret__"]
                ELSE tasks[t].val \in {Null, Undefined}

\* C8: calling a script function with fewer arguments than parameters is not
\* an error: reading a parameter that received no argument (bound to
\* undefined in the frame of the call) yields that value, no exception
\* `Undefined: <parameter>` is raised.
C8_MissingParameterReadsNull ==
    \A t \in DOMAIN tasks : \A s \in DOMAIN scopes :
        \A name \in DOMAIN scopes[s].values :
            (/\ scopes[s].parent # 0
             /\ scopes[s].values[name] = Undefined
             /\ tasks[t].status = "error")
                => tasks[t].err # "Undefined: " \o name

\* The right operand of a pending `and` is being evaluated only after a
\* truthy left operand, that of a pending `or` only after a falsy one.
RightOnlyWhenNeeded ==
    \A t \in DOMAIN tasks : \A p \in DOMAIN tasks[t].stack :
        LET f == tasks[t].stack[p]
        IN  (f.k = "expr" /\ f.node.type = "BinaryExpression" /\ f.pc = "pass") =>
                /\ f.node.operator = "and" => f.acc \in {Bool(TRUE), Num(1), Str("a")}
                /\ f.node.operator = "or" => f.acc \in {Bool(FALSE), Num(0), Str("")}

\* The left operand of the logic program decides alone: truthy values
LeftTruthy == LogicLeft(prog.n) \in {Bool(TRUE), Num(1), Str("a")}

RightNeeded == IF LogicOp(prog.n) = "and" THEN LeftTruthy ELSE ~LeftTruthy

\* The logic programs: g (the left operand) is called at most once and before
\* f (the right operand); f is called only when the left value requires it;
\* once line 9 has run, g has been called exactly once, f once or never, and
\* r is the value of the operand that decided.
LogicCallsAsNeeded ==
    prog.fam = "logic" =>
        /\ Count(<<"call", "g">>) <= (IF LogicViaCall(prog.n) THEN 1 ELSE 0)
        /\ Count(<<"call", "f">>) <= 1
        /\ Occurs(<<"call", "f">>) =>
              /\ RightNeeded
              /\ LogicViaCall(prog.n) =>
                    \E j, k \in DOMAIN trace :
                        j < k /\ trace[j] = <<"call", "g">> /\ trace[k] = <<"call", "f">>
        /\ (Succeeded /\ Started(9)) =>
              /\ LogicViaCall(prog.n) => Count(<<"call", "g">>) = 1
              /\ Count(<<"call", "f">>) = (IF RightNeeded THEN 1 ELSE 0)
              /\ Global("r") = (IF RightNeeded THEN Num(7) ELSE LogicLeft(prog.n))

\* C9: `L and R` evaluates L first and exactly once and never evaluates R
\* when L is falsy; `L or R` evaluates L first and exactly once and never
\* evaluates R when L is truthy; `False and f()` and `True or f()` never
\* invoke f.
C9_ShortCircuit == RightOnlyWhenNeeded /\ LogicCallsAsNeeded

\* `g() and f()` with g returning 0 has run: g was called, f was not, r is 0.
C9_Witness ==
    /\ prog.fam = "logic"
    /\ LogicOp(prog.n) = "and"
    /\ LogicViaCall(prog.n)
    /\ LogicLeft(prog.n) = Num(0)
    /\ Succeeded
    /\ Count(<<"call", "g">>) = 1
    /\ Count(<<"call", "f">>) = 0
    /\ Global("r") = Num(0)

\* The properties Child is defined with in the object program: x and y
\* copied from Base, y overridden and z added by its own body.
ChildExpected ==
    Object(("x" :> Num(prog.n)) @@ ("y" :> Num(9)) @@ ("z" :> Num(prog.n + 1)))

\* C10: once Child has been defined with parent Base, its properties are a
\* one-time copy: redefining Base with another x (line 7) and rebinding the
\* name Base (line 10) leave every property of Child unchanged, and Child.x
\* reads the same after each.
C10_ChildIsOneTimeCopy ==
    prog.fam = "object" =>
        /\ \A t \in DOMAIN tasks : tasks[t].status # "error"
        /\ Started(7) => Global("Child") = ChildExpected
        /\ Started(10) => Global("p1") = Num(prog.n)
        /\ Started(12) => Global("p2") = Num(prog.n)

\* Base has been redefined with x = n + 5 and then rebound to 0; Child.x has
\* been read after each and Child still has the x it was defined with.
C10_Witness ==
    /\ prog = Desc("object", 1, <<>>)
    /\ Succeeded
    /\ Started(14)
    /\ Global("Base") = Num(0)
    /\ Global("Child").v["x"] = Num(1)
    /\ Global("p1") = Num(1)
    /\ Global("p2") = Num(1)

\* Frame s is the frame of an object definition: a root frame other than the
\* global one.
IsObjectFrame(s) == s # 1 /\ scopes[s].parent = 0

\* Task t takes a step of a call that runs in the frame of an object
\* definition.
StepsInObjectFrame(t) ==
    /\ Running(t)
    /\ IsObjectFrame(Top(tasks[t]).scope)
    /\ tasks'[t] # tasks[t]

\* Task t takes the step that binds the object its ObjectDefinition has built.
BindsObject(t) ==
    /\ At(t, "stmt", "ObjectDefinition")
    /\ Top(tasks[t]).pc = "body"
    /\ tasks'[t] # tasks[t]

\* The body of a pending object definition runs in a frame without parent,
\* and so does every statement and expression of it.
ObjectBodyIsolated ==
    \A t \in DOMAIN tasks : \A p \in DOMAIN tasks[t].stack :
        LET st == tasks[t].stack
        IN  (st[p].k = "stmt" /\ st[p].node.type = "ObjectDefinition" /\ st[p].pc = "body")
                => /\ IsObjectFrame(st[p].i)
                   /\ p < Len(st) => st[p + 1].scope = st[p].i

\* The isolation program: the body of Obj assigns k and ox in its own frame
\* (the global k stays 5, Obj is {k: 2, ox: 11}); the body of Bad reads k, which
\* only the global frame binds, and raises the undefined-variable error.
IsolationOutcome ==
    prog.fam = "isolation" =>
        /\ Started(7) =>
              /\ Global("k") = Num(5)
              /\ Global("Obj") = Object(("k" :> Num(2)) @@ ("ox" :> Num(11)))
              /\ "ox" \notin DOMAIN Globals
        /\ Started(8) => Global("r") = Num(2)
        /\ ~Started(10)
        /\ \A t \in DOMAIN tasks :
              tasks[t].status = "error" => (Started(9) /\ tasks[t].err = "Undefined: k")
        /\ (Finished /\ Started(9)) =>
              (tasks[1].status = "error" /\ Global("k") = Num(5))

\* C11: the body of an object definition runs in a frame isolated from the
\* enclosing scope: an identifier bound only in the enclosing or global scope
\* raises the undefined-variable error, assignments in the body change no
\* binding outside the object's frame, and the object's properties are
\* exactly the frame's final bindings.
C11_ObjectBodyIsolated ==
    /\ [][\A t \in DOMAIN tasks :
            /\ StepsInObjectFrame(t) =>
                  \A s \in DOMAIN scopes :
                      s # Top(tasks[t]).scope => scopes'[s] = scopes[s]
            /\ BindsObject(t) =>
                  LET f == Top(tasks[t])
                  IN  scopes'[f.scope].values[f.node.name] = Object(scopes[f.i].values)]_vars
    /\ [](ObjectBodyIsolated /\ IsolationOutcome)

\* The body of Bad has raised `Undefined: k` while the global k is 5, after
\* Obj was built with a k of its own.
C11_Witness ==
    /\ prog.fam = "isolation"
    /\ Finished
    /\ tasks[1].err = "Undefined: k"
    /\ Global("k") = Num(5)
    /\ Global("Obj").v["k"] = Num(2)

\* Task t takes the step of an eval whose argument has been evaluated.
EvalsSource(t) ==
    /\ At(t, "expr", "EvalCall")
    /\ Top(tasks[t]).pc = "argument"
    /\ tasks'[t] # tasks[t]

\* The source text of the eval of task t.
SourceOf(t) == ToStr(tasks[t].val)

\* The source texts compiled with success, oldest first.
Compilations == SelectSeq(compiled, LAMBDA code : ~ParseFails(code))

\* An eval of a source text the cache has hands nothing to the Lexer and the
\* Parser and executes the cached Program.
CachedProgramReused(t) ==
    (EvalsSource(t) /\ SourceOf(t) \in DOMAIN evalCache) =>
        /\ compiled' = compiled
        /\ evalCache' = evalCache
        /\ LET body == evalCache[SourceOf(t)]
           IN  Top(tasks'[t]).node =
                   IF IsSingleExpression(body) THEN body[1].expression
                   ELSE [type |-> "Block", body |-> body]

\* Every source text compiled with success was compiled once, and the cache
\* holds exactly these.
CompiledOnce ==
    /\ \A j, k \in DOMAIN Compilations : Compilations[j] = Compilations[k] => j = k
    /\ DOMAIN evalCache = {Compilations[k] : k \in DOMAIN Compilations}
    /\ Len(Compilations) = Cardinality(DOMAIN evalCache)

\* C12: within one Interpreter, eval of a source text an earlier eval has
\* compiled does not run the Lexer and the Parser again: the compilations are
\* as many as the distinct source texts compiled with success, the cached
\* Program is reused, and eval("1 + 2") yields 3 both times.
C12_EvalCompilesOnce ==
    /\ [][\A t \in DOMAIN tasks : CachedProgramReused(t)]_vars
    /\ [](/\ CompiledOnce
          /\ (prog = Desc("eval", 1, <<>>) /\ Started(4)) =>
                (Global("a") = Num(3) /\ Global("b") = Num(3)))

\* Four evals of two source texts have been made, and two compilations.
C12_Witness ==
    /\ prog = Desc("eval", 1, <<>>)
    /\ Succeeded
    /\ Compilations = <<"1 + 2", "y + x">>
    /\ Global("a") = Num(3)
    /\ Global("b") = Num(3)
    /\ Global("d") = Num(15)

\* The Program of an eval that is one expression statement is evaluated as
\* that expression, every other Program is executed as a block; both in the
\* scope of the caller.
EvalRunsInCallerScope(t) ==
    (EvalsSource(t) /\ tasks'[t].status # "error") =>
        LET f == Top(tasks[t])
            body == evalCache'[SourceOf(t)]
        IN  Top(tasks'[t]) =
                IF Len(body) = 1 /\ body[1].type = "ExpressionStatement"
                THEN Frame("expr", body[1].expression, f.scope)
                ELSE BlockFrame(body, f.scope)

\* Task t takes the step of an eval whose expression or block has returned.
EvalReturns(t) ==
    /\ At(t, "expr", "EvalCall")
    /\ Top(tasks[t]).pc = "value"
    /\ tasks'[t] # tasks[t]

\* The statements of the source text of the eval that returns have been
\* started in order, the last one last.
RanInOrder(t) ==
    LET body == evalCache[Top(tasks[t]).acc.v]
        lines == SelectSeq(trace, LAMBDA e : e[1] = "stmt" /\ e[2] > 100)
    IN  (Len(body) > 1) =>
            /\ Len(lines) >= Len(body)
            /\ \A k \in DOMAIN body :
                  lines[Len(lines) - Len(body) + k] = <<"stmt", body[k].line>>

\* The eval programs: what the evals return and the bindings they leave.
EvalOutcome ==
    /\ prog = Desc("eval", 1, <<>>) =>
          /\ Started(7) => Global("c") = Num(14)
          /\ (Started(8) /\ Finished) => Global("d") = Num(15)
    /\ prog = Desc("eval", 2, <<>>) =>
          /\ Started(2) => Global("r") = Null
          /\ Started(3) => (Global("s") = Num(2) /\ Global("m") = Num(1))
          /\ Started(4) => ("t" \in DOMAIN Globals /\ Global("t") = Undefined
                            /\ Global("q") = Num(7))
          /\ Started(8) => (Global("z") = Num(4) /\ {"p", "loc"} \cap DOMAIN Globals = {})
          /\ Started(9) => Global("v") = Num(2)

\* C13: eval of a source that parses to one expression statement returns the
\* value of that expression evaluated in the caller's scope; eval of any
\* other program executes its statements in order as a block in the caller's
\* scope, the bindings it creates stay visible to the caller, and it returns
\* the result of the last statement.
C13_EvalExpressionOrBlock ==
    /\ [][\A t \in DOMAIN tasks :
            /\ EvalRunsInCallerScope(t)
            /\ EvalReturns(t) =>
                  (RanInOrder(t) /\ tasks'[t] = Return(tasks[t], tasks[t].val))]_vars
    /\ []EvalOutcome

\* g has returned loc + p, both bound in its frame by the block of an eval,
\* after evals of no statement, of two and of one assignment.
C13_Witness ==
    /\ prog = Desc("eval", 2, <<>>)
    /\ Started(8)
    /\ Global("z") = Num(4)
    /\ Global("r") = Null
    /\ Global("s") = Num(2)
    /\ Global("q") = Num(7)

\* Task t takes the step of a for statement that tests `i <= end`: after the
\* bounds have been evaluated, after a body that left no return marker, or
\* after the yield.
ForTests(t) ==
    /\ At(t, "stmt", "ForStatement")
    /\ LET f == Top(tasks[t])
       IN  \/ f.pc = "to" /\ f.acc.t = "num" /\ tasks[t].val.t = "num"
           \/ f.pc = "body" /\ ~ScopeHas(scopes, f.scope, "__ret__")
                            /\ f.i % ForYieldEvery # 0
           \/ f.pc = "resume"
    /\ tasks'[t] # tasks[t]

\* The value of i the test of task t is made with, and the end of the range.
ForValue(t) == LET f == Top(tasks[t]) IN IF f.pc = "to" THEN f.acc.v ELSE f.i + 1
ForEnd(t) == LET f == Top(tasks[t]) IN IF f.pc = "to" THEN tasks[t].val.v ELSE f.acc.v

\* The test of a for statement either binds the iterator to the next value of
\* the range and runs the body, or finds the range exhausted and ends the
\* loop; the values follow one another from the start of the range on.
ForIterates(t) ==
    (ForTests(t) /\ ~stop) =>
        LET f == Top(tasks[t])
            st == tasks'[t].stack
        IN  IF ForValue(t) <= ForEnd(t)
            THEN /\ Len(st) = Len(tasks[t].stack) + 1
                 /\ st[Len(st)] = BlockFrame(f.node.body, f.scope)
                 /\ st[Len(st) - 1].i = ForValue(t)
                 /\ scopes' = ScopeSet(scopes, f.scope, f.node.iterator, Num(ForValue(t)))
            ELSE /\ Len(st) = Len(tasks[t].stack) - 1
                 /\ scopes' = scopes

\* The digits of n in the range programs, once the loop has ended.
RangeExpected == <<123, 2, 0, 23>>

\* The range programs: the body has run once for every value from a to b, in
\* order, and not at all when a > b.
RangeOutcome ==
    (prog.fam = "range" /\ Started(4)) =>
        LET a == RangeBounds[prog.n][1]
            b == RangeBounds[prog.n][2]
        IN  /\ Count(<<"iter", 2>>) = IF a > b THEN 0 ELSE b - a + 1
            /\ Count(<<"stmt", 3>>) = Count(<<"iter", 2>>)
            /\ Global("n") = Num(RangeExpected[prog.n])

\* C14: `for i = a to b` with integers a <= b and a body that executes no
\* return or break executes the body b - a + 1 times, with i bound to a, a + 1,
\* .., b in order; with a > b the body is never executed.
C14_ForRunsRange ==
    /\ [][\A t \in DOMAIN tasks : ForIterates(t)]_vars
    /\ []RangeOutcome

\* The loop from 1 to 3 has ended after three iterations, with i 1, 2, 3.
C14_Witness ==
    /\ prog.fam = "range"
    /\ RangeBounds[prog.n] = <<1, 3>>
    /\ Succeeded
    /\ Global("n") = Num(123)
    /\ Count(<<"iter", 2>>) = 3

\* Task t takes a step of a while statement.
WhileSteps(t) == At(t, "stmt", "WhileStatement") /\ tasks'[t] # tasks[t]

\* The body of a while statement is run by the step that has the value of
\* the test, when that value is truthy; a falsy value ends the loop; every
\* other step of the statement evaluates the test, ends the loop or yields.
TestBeforeBody(t) ==
    WhileSteps(t) =>
        LET f == Top(tasks[t])
            st == tasks'[t].stack
            depth == Len(tasks[t].stack)
            runsBody == Len(st) = depth + 1
                        /\ st[depth + 1] = BlockFrame(f.node.body, f.scope)
        IN  IF f.pc = "test"
            THEN IF Truthy(tasks[t].val) THEN runsBody ELSE Len(st) = depth - 1
            ELSE /\ ~runsBody
                 /\ f.pc = "start" =>
                       \/ st = Append([tasks[t].stack EXCEPT ![depth].pc = "test"],
                                      Frame("expr", f.node.test, f.scope))
                       \/ stop /\ Len(st) = depth - 1

\* The arguments of the calls of print made by the current run, oldest first.
Printed ==
    LET n == Count(<<"call", "print">>)
    IN  SubSeq(console, Len(console) - n + 1, Len(console))

\* The count program: the test was evaluated four times, the body ran for
\* i = 0, 1, 2 and printed them in this order.
CountOutcome ==
    (prog.fam = "count" /\ Started(5)) =>
        /\ Count(<<"test", 2>>) = 4
        /\ Count(<<"stmt", 3>>) = 3
        /\ Printed = << <<Num(0)>>, <<Num(1)>>, <<Num(2)>> >>
        /\ Global("i") = Num(3)

\* C15: a while loop evaluates its test before every iteration, runs the body
\* only when the test is truthy and ends the first time the test is falsy: the
\* loop that prints i and increments it from 0 under the test i < 3 outputs 0,
\* 1, 2 and terminates.
C15_WhileTestsFirst ==
    /\ [][\A t \in DOMAIN tasks : TestBeforeBody(t)]_vars
    /\ []CountOutcome

\* The count program has ended after printing 0, 1, 2.
C15_Witness ==
    /\ prog.fam = "count"
    /\ Succeeded
    /\ Started(5)
    /\ Printed = << <<Num(0)>>, <<Num(1)>>, <<Num(2)>> >>

\* The control-flow markers executeStatement keeps in a scope.
Markers == {"__ret__", "__break__", "__continue__"}

\* run() leaves every scope as it is, the global one included.
RunKeepsGlobals == runs' # runs => scopes' = scopes

\* No step removes a binding from the global scope.
GlobalsStay == \A name \in DOMAIN Globals \ Markers : name \in DOMAIN scopes'[1].values

\* Between two runs the global scope is what the last statement left.
SecondRunReads ==
    /\ (prog = Desc("session", 2, <<>>) /\ runs = 2) =>
        /\ Started(2) => Global("z") = Num(3)
        /\ Started(3) => (Global("x") = Num(11) /\ Global("y") = Num(2))
        /\ (Started(3) /\ Finished) => Global("w") = Num(12)
    /\ (prog = Desc("session", 3, <<>>) /\ runs = 2 /\ Started(2) /\ Finished) =>
          Printed = << <<Num(4), Num(1)>> >>

\* C16: every binding a run() creates at top level stays in the global scope
\* after the run and is read, with the value it last had, by the statements of
\* the later runs on the same instance; run() never replaces or clears the
\* global scope.
C16_GlobalsPersist ==
    /\ [][RunKeepsGlobals /\ GlobalsStay]_vars
    /\ []SecondRunReads

\* The second run has read x and y of the first one, changed x, and called
\* the function the first one declared.
C16_Witness ==
    /\ prog = Desc("session", 2, <<>>)
    /\ runs = 2
    /\ Succeeded
    /\ Global("z") = Num(3)
    /\ Global("w") = Num(12)

\* Task t starts a statement: executeBlock calls executeStatement.
StartsStatement(t) ==
    /\ Len(tasks'[t].stack) = Len(tasks[t].stack) + 1
    /\ Top(tasks'[t]).k = "stmt"

\* Task t takes the step of a loop that decides on the next iteration: the
\* test of a while statement is about to be evaluated, or `i <= end` of a for
\* statement is tested.
IterationCheck(t) ==
    /\ tasks'[t] # tasks[t]
    /\ \/ At(t, "stmt", "WhileStatement") /\ Top(tasks[t]).pc = "start"
       \/ ForTests(t)

\* With the stop flag set, no statement is started, every loop ends at its
\* iteration check, and every step of a block returns or yields.
StoppedStep ==
    (stop /\ stop') =>
        \A t \in DOMAIN tasks :
            LET rest == SubSeq(tasks[t].stack, 1, Len(tasks[t].stack) - 1)
            IN  /\ tasks[t].status = "run" => ~StartsStatement(t)
                /\ IterationCheck(t) => tasks'[t].stack = rest
                /\ (At(t, "block", "Block") /\ tasks'[t] # tasks[t]) =>
                      (tasks'[t].stack = rest \/ tasks'[t].status = "timer")

\* No statement, loop test or iteration is added to the history once the
\* flag is set.
NothingStartedOnceStopped ==
    (stop /\ stop') =>
        \A k \in Len(trace) + 1 .. Len(trace') : trace'[k][1] \notin {"stmt", "test", "iter"}

\* C17: once stop is set while a script is executing, the execution starts no
\* further statement, every while and for loop stops at its next iteration
\* check, every block in progress returns, and run() returns to the host in
\* the end.
C17_StopEndsExecution ==
    /\ [][StoppedStep /\ NothingStartedOnceStopped]_vars
    /\ (stop ~> Idle)

\* The never-ending loop was cancelled and run() has returned, the statement
\* after the loop not started.
C17_Witness ==
    /\ prog = Desc("stop", 1, <<>>)
    /\ stop
    /\ Finished
    /\ Count(<<"test", 2>>) >= 2
    /\ ~Started(4)

\* An error has been raised in the current execution.
Raised == \E t \in DOMAIN tasks : tasks[t].status = "error"

\* C18: a runtime error aborts the whole top-level execution: run() fails
\* with that error, and from the moment the error is raised the execution
\* executes no further statement, changes no scope binding and invokes no
\* builtin.
C18_ErrorAbortsExecution ==
    /\ [][(Raised /\ runs' = runs) =>
            /\ scopes' = scopes
            /\ console' = console
            /\ \A t \in DOMAIN tasks : tasks[t].status = "run" => ~StartsStatement(t)]_vars
    /\ [](Raised => tasks[1].status \in {"error", "run", "join", "timer"})
    /\ []((Raised /\ Idle) => tasks[1].status = "error")

\* The value the callee of the call expression evaluated, or the object of
\* the member expression evaluated, has in the Map-based Interpreter.
SquaredTarget ==
    EvaluateExpression(IF squared.node.type = "CallExpression" THEN squared.node.callee
                       ELSE squared.node.object, SquaredGlobals)

\* C19: a call whose target is not a function raises a fatal runtime error
\* and invokes nothing, and a member access whose object is null or undefined
\* raises a fatal runtime error; neither silently yields null.
C19_NoSilentNull ==
    (squared.state = "settled" /\ squared.node.type \in {"CallExpression", "MemberExpression"}
        /\ SquaredTarget.err = "") =>
        /\ (squared.node.type = "CallExpression" /\ ~IsCallable(SquaredTarget.val)) =>
              squared.result.err # ""
        /\ (squared.node.type = "MemberExpression"
              /\ SquaredTarget.val.t \in {"null", "undefined"}) =>
              squared.result.err # ""

\* The tokens of type `type` among the first k tokens.
TokenCount(type, k) == Cardinality({j \in 1..k : lexer.tokens[j].type = type})

\* Every prefix of the tokens has at least as many INDENT as DEDENT tokens.
PrefixesBalanced ==
    \A k \in 0..Len(lexer.tokens) : TokenCount("INDENT", k) >= TokenCount("DEDENT", k)

\* One INDENT token for every push and one DEDENT token for every pop.
TokenPerLevel ==
    /\ TokenCount("INDENT", Len(lexer.tokens)) = lexer.pushes
    /\ TokenCount("DEDENT", Len(lexer.tokens)) = lexer.pops
    /\ Len(lexer.indentStack) = 1 + lexer.pushes - lexer.pops

\* The stack is strictly increasing from its base 0.
StackIncreasing ==
    /\ lexer.indentStack # <<>>
    /\ lexer.indentStack[1] = 0
    /\ \A j, k \in DOMAIN lexer.indentStack :
          j < k => lexer.indentStack[j] < lexer.indentStack[k]

\* tokenize has returned: the stack is back to its base, as many DEDENT as
\* INDENT tokens were emitted.
ReturnsBalanced ==
    lexer.state = "returned" =>
        /\ lexer.indentStack = <<0>>
        /\ TokenCount("INDENT", Len(lexer.tokens)) = TokenCount("DEDENT", Len(lexer.tokens))

\* C20: for every input of the indent-stack Lexer, as many DEDENT as INDENT
\* tokens are emitted, no prefix of the tokens has more DEDENT than INDENT
\* tokens, every push goes with one INDENT and every pop with one DEDENT, the
\* stack is strictly increasing from the base 0 at all times and is back to
\* the base alone when tokenize returns, also when the source ends indented.
C20_IndentsBalanced ==
    lexer.state # "idle" =>
        (PrefixesBalanced /\ TokenPerLevel /\ StackIncreasing /\ ReturnsBalanced)

\* tokenize has returned for a source whose last line is indented two levels
\* deep: the two DEDENT tokens were emitted at the end.
C20_Witness ==
    /\ lexer.state = "returned"
    /\ lexer.lines # <<>>
    /\ lexer.lines[Len(lexer.lines)].text = "x"
    /\ Indent(lexer.lines[Len(lexer.lines)].lead) > 1
    /\ lexer.pushes = 2
    /\ TokenCount("DEDENT", Len(lexer.tokens)) = 2
    /\ lexer.tokens[Len(lexer.tokens)] = Token("DEDENT", 0)
    /\ lexer.tokens[Len(lexer.tokens) - 1] = Token("DEDENT", 0)

\* C21: tokenizeLine never returns with characters of the line passed over:
\* a line with an unterminated string literal or object identifier does not
\* come back as a token sequence.
C21_NoCharacterSkipped ==
    lexer.state = "scanned" => lexer.skipped = {}

\* The script is the one running (or the one that ran last).
Runs(n) == prog = Desc("script", n, <<>>)

\* C22: an array literal evaluates its elements left to right, each once, and
\* yields the sequence of their values; the empty literal yields the empty
\* sequence.  In the array script, once `after = 1` has been started: f was
\* called twice, a is [1, 2, 7] and e is [].
C22_ArrayLiteralEvaluates ==
    (Runs(1) /\ Started(7)) =>
        /\ Count(<<"call", "f">>) = 2
        /\ Global("a") = Array(<<Num(1), Num(2), Num(7)>>)
        /\ Global("e") = Array(<<>>)

\* The text the output callback receives for one call of print: the
\* stringified arguments, joined by blanks.
RECURSIVE SinkText(_)
SinkText(args) ==
    IF args = <<>> THEN ""
    ELSE IF Len(args) = 1 THEN Stringify(args[1])
    ELSE Stringify(args[1]) \o " " \o SinkText(Tail(args))

\* What the print script prints, call by call.
PrintedValues ==
    << <<Num(5)>>, <<Str("hi"), Bool(TRUE)>>, <<Object("x" :> Num(1))>> >>

\* C23: every call of the print builtin delivers its stringified values to
\* the output callback given to the constructor.  In the print script, once
\* `after = 1` has been started, the callback has received the three texts.
C23_PrintReachesSink ==
    (Runs(2) /\ Started(6)) =>
        output = [k \in DOMAIN PrintedValues |-> SinkText(PrintedValues[k])]

\* C24: the program `var[x] = 5`, `print(x)` binds x to 5 and prints the one
\* line 5, with no error.
C24_VarDeclarationBinds ==
    (Runs(3) /\ Finished) =>
        /\ Succeeded
        /\ Global("x") = Num(5)
        /\ (Printed = << <<Num(5)>> >> \/ output = <<"5">>)

\* C25: the arguments of a call are evaluated one after another: in the
\* arguments script the second call of f does not begin before the body of
\* the first has run, and once `after = 1` has been started both increments
\* of n are there.
C25_ArgumentsInTurn ==
    Runs(4) =>
        /\ \A k \in 1..(Len(trace) - 1) :
              ~(trace[k] = <<"call", "f">> /\ trace[k + 1] = <<"call", "f">>)
        /\ Started(5) => Global("n") = Num(2)

\* Every binding of every scope that is not a control-flow marker stays.
BindingsStay ==
    \A s \in DOMAIN scopes :
        \A name \in (DOMAIN scopes[s].values \cup DOMAIN scopes'[s].values) \ Markers :
            /\ name \in DOMAIN scopes[s].values
            /\ name \in DOMAIN scopes'[s].values
            /\ scopes'[s].values[name] = scopes[s].values[name]

\* C26: once the stop flag is set, the cancelled execution assigns to no
\* scope and calls no builtin: while the flag stays set, no binding of a scope
\* changes and nothing is printed.
C26_NoEffectOnceStopped ==
    [][(stop /\ stop') => (BindingsStay /\ console' = console)]_vars

\* C27: an execution that was suspended when the stop flag was set starts no
\* further statement, also when run() is called again before it resumes: in
\* the history no statement of the first host program follows the setting of
\* the flag.
C27_CancelledStaysCancelled ==
    \A j, k \in DOMAIN trace :
        (j < k /\ trace[j] = <<"stop", 0>>) => ~(trace[k][1] = "stmt" /\ trace[k][2] < 20)

\* C28: when a run() has finished, the global scope holds no control-flow
\* marker, so a later run is not cut short by the return of an earlier one: a
\* run of the fifth session program that has finished without an error has
\* bound q.
C28_MarkersCleared ==
    Finished =>
        /\ DOMAIN Globals \cap Markers = {}
        /\ (prog = Desc("session", 5, <<>>) /\ Succeeded) => Global("q") = Num(2)

\* The return script: what a return, a break and a continue executed in the
\* functions it calls leave of its own while loop and top-level block.
ReturnOutcome ==
    Runs(5) =>
        /\ Started(18) => Global("g").t = "function"
        /\ Count(<<"stmt", 22>>) = Count(<<"stmt", 20>>)
           \/ Count(<<"stmt", 22>>) + 1 = Count(<<"stmt", 20>>)
        /\ Started(23) =>
              /\ Count(<<"stmt", 22>>) = 2
              /\ Count(<<"call", "h">>) = 2
              /\ Count(<<"call", "fact">>) = 6
              /\ Global("i") = Num(2)
              /\ Global("s") = Num(26)
        /\ Finished => (Succeeded /\ Global("done") = Num(1))
        /\ ~Started(24)

\* C29: a return, and a break or continue outside any loop, executed inside a
\* called function affects only that call.  No marker ever appears in the
\* global scope the scripts call their functions from, and in the return
\* script the block and the while loop of the caller run to their end, with
\* the values of the recursive calls and of the calls of the closure whose
\* defining call has returned.
C29_ReturnStaysInCall ==
    /\ DOMAIN Globals \cap Markers = {}
    /\ ReturnOutcome

\* The return script has finished: both iterations called the closure, the
\* functions that break and continue, and the recursive function.
C29_Witness ==
    /\ Runs(5)
    /\ Succeeded
    /\ Count(<<"stmt", 11>>) = 2
    /\ Count(<<"stmt", 13>>) = 2
    /\ Count(<<"stmt", 3>>) = 2
    /\ Global("s") = Num(26)
    /\ Global("done") = Num(1)

\* C30: once an assignment to a name has completed, evaluating the name
\* raises no undefined-variable error, whatever was assigned.  In the assigned
\* script x is read only after `x = f()` has completed: no evaluation fails
\* with the error for x.
C30_AssignedIsDefined ==
    Runs(6) => \A t \in DOMAIN tasks : tasks[t].err # "Undefined: x"

\* C31: the interpreter yields to the host at a fixed cadence; in particular
\* no more than YieldEvery statements run to completion, one after the other,
\* without the host having had control in between (a while loop yields after
\* each iteration that does not end it, a for loop after each iteration whose
\* value is a multiple of ForYieldEvery).
C31_YieldsAtCadence == unyielded <= YieldEvery

\* The iterations of the for loop of the bounds program made so far
Iterations == Count(<<"iter", 44>>)

\* C32: a range for loop makes at most end - start + 1 iterations, with the
\* bounds as they were evaluated before the first iteration, and binds the
\* iterator to start, start + 1, ... at the start of the iterations, whatever
\* its body assigns to the iterator and to the variables the bounds came from:
\* in the bounds program (from 0 to 2) the k-th iteration starts with i = k - 1,
\* there are never more than three, and the loop ends after the third with
\* n = 012.
C32_ForBoundsFixed ==
    /\ [](prog.fam = "bounds" => Iterations <= 3)
    /\ [][(prog.fam = "bounds" /\ prog' = prog /\ Iterations' = Iterations + 1)
            => Global("i")' = Num(Iterations)]_vars
    /\ []((prog.fam = "bounds" /\ Finished) =>
            (Succeeded /\ Iterations = 3 /\ Global("n") = Num(12)
             /\ Global("done") = Num(1)))

\* The bounds program has ended after its body changed i, a and b.
C32_Witness ==
    /\ prog.fam = "bounds"
    /\ Succeeded
    /\ Global("i") = Num(7)
    /\ Global("a") = Num(5)
    /\ Global("b") = Num(9)
    /\ Iterations = 3

\* The calls the tests of the if statement have made so far, oldest first
TestsMade == SelectSeq(trace, LAMBDA e : e[1] = "call")

\* The bodies of the if statement started so far, oldest first
BodiesRun == SelectSeq(trace, LAMBDA e : e[1] = "stmt" /\ e[2] \in {58, 60, 62, 64})

\* The first test of the branch program n that is truthy, 4 when none is
FirstTruthy(n) ==
    IF Tests(n)[1] = 1 THEN 1 ELSE IF Tests(n)[2] = 1 THEN 2
    ELSE IF Tests(n)[3] = 1 THEN 3 ELSE 4

TestNames == << <<"call", "a">>, <<"call", "b">>, <<"call", "c">> >>
BodyLines == <<58, 60, 62, 64>>

\* C33: an if statement executes at most one branch.  In every branch program
\* the tests are evaluated in source order and none after the first truthy
\* one; at most one body is started, and it is the body of the first truthy
\* test (the else when there is none and the program has an else); once the
\* program has ended every test up to that one has been evaluated and that
\* body has run (r holds its number), or no body when no test is truthy and
\* there is no else.
C33_OneBranch ==
    prog.fam = "branch" =>
        LET k == FirstTruthy(prog.n)
            tests == IF k = 4 THEN 3 ELSE k
            none == k = 4 /\ ~HasElse(prog.n)
        IN  /\ Len(TestsMade) <= tests
            /\ TestsMade = SubSeq(TestNames, 1, Len(TestsMade))
            /\ Len(BodiesRun) <= 1
            /\ BodiesRun # <<>> =>
                   /\ ~none
                   /\ BodiesRun = << <<"stmt", BodyLines[k]>> >>
                   /\ Len(TestsMade) = tests
            /\ Finished =>
                   /\ Succeeded
                   /\ Len(TestsMade) = tests
                   /\ BodiesRun = IF none THEN <<>> ELSE << <<"stmt", BodyLines[k]>> >>
                   /\ ~none => Global("r") = Num(k)
                   /\ Global("done") = Num(1)

\* The second test was the first truthy one: its body has run, the third test
\* was not evaluated, and the program has ended.
C33_Witness ==
    /\ prog.fam = "branch"
    /\ Tests(prog.n) = <<0, 1, 1>>
    /\ HasElse(prog.n)
    /\ Succeeded
    /\ Global("r") = Num(2)
    /\ TestsMade = << <<"call", "a">>, <<"call", "b">> >>

\* C34: for every token sequence the Lexer produces, parse() throws or returns
\* with every token consumed: on a normal return this.pos is the number of
\* tokens.
C34_ParseAccountsForTokens ==
    parser.state = "returned" => parser.pos = Len(lexer.tokens)

\* parse() has returned a Program of an if statement, whose body was closed
\* by a DEDENT in the middle of the tokens, and of the statement after it.
C34_Witness ==
    /\ parser.state = "returned"
    /\ Len(parser.body) = 2
    /\ parser.body[1].type = "IfStatement"
    /\ parser.body[2].type = "ExpressionStatement"
    /\ \E k \in 1..(Len(lexer.tokens) - 1) : lexer.tokens[k].type = "DEDENT"

\* The expression `a op1 b op2 c` was parsed: its operators and its tree
ParsedPair ==
    /\ parser.state = "returned"
    /\ Len(lexer.lines) = 1
    /\ lexer.lines[1] \in ExpressionLines

FirstOp == lexer.lines[1].words[2]
SecondOp == lexer.lines[1].words[4]

\* The precedence of the operators, from the lowest
Precedence(op) ==
    CASE op.value = "or" -> 1
      [] op.value = "and" -> 2
      [] op.value \in {"==", "<"} -> 3
      [] op.value \in {"+", "-"} -> 4
      [] OTHER -> 5

LeftFirst ==
    BinaryExpression(
        BinaryExpression(Identifier("a"), FirstOp.value, Identifier("b")),
        SecondOp.value, Identifier("c"))

RightFirst ==
    BinaryExpression(Identifier("a"), FirstOp.value,
        BinaryExpression(Identifier("b"), SecondOp.value, Identifier("c")))

\* C35: binary expressions are built with the precedence or, and, comparison,
\* additive, multiplicative from the lowest, each level left-associative:
\* `a op1 b op2 c` is parsed as a op1 (b op2 c) when op2 binds tighter than
\* op1, and as (a op1 b) op2 c otherwise.
C35_PrecedenceAndAssociativity ==
    ParsedPair =>
        /\ Len(parser.body) = 1
        /\ parser.body[1].type = "ExpressionStatement"
        /\ parser.body[1].expression =
               IF Precedence(SecondOp) > Precedence(FirstOp) THEN RightFirst ELSE LeftFirst

\* `a + b * c` was parsed as a + (b * c)
C35_Witness ==
    /\ ParsedPair
    /\ FirstOp.value = "+"
    /\ SecondOp.value = "*"
    /\ parser.body[1].expression.right.type = "BinaryExpression"
    /\ parser.body[1].expression.right.operator = "*"

\* The widths of the lines that enclose the next line, innermost last, after
\* the first k lines of the input: a line of code closes the lines that are
\* not indented less than it.
RECURSIVE Enclosing(_, _)
Enclosing(lines, k) ==
    IF k = 0 THEN <<>>
    ELSE LET before == Enclosing(lines, k - 1)
             w == Indent(lines[k].lead)
         IN  IF lines[k].text # "x" THEN before
             ELSE Append(SelectSeq(before, LAMBDA v : v < w), w)

\* Each decrease of indentation returns to a width used by an enclosing line
\* (the first line of code is at width 0).
ReturnsToEnclosing(lines) ==
    \A k \in DOMAIN lines :
        lines[k].text = "x" =>
            LET before == Enclosing(lines, k - 1)
                w == Indent(lines[k].lead)
            IN  IF before = <<>> THEN w = 0
                ELSE w > before[Len(before)] \/ \E j \in DOMAIN before : before[j] = w

\* C36: the column-counting Lexer emits as many DEDENT as INDENT tokens for
\* every program whose decreases of indentation return to the width of an
\* enclosing line, whatever the widths of the indentation steps.
C36_ColumnIndentsBalanced ==
    (lexer.state = "returned" /\ "currentIndent" \in DOMAIN lexer
     /\ ReturnsToEnclosing(lexer.lines)) =>
        TokenCount("INDENT", Len(lexer.tokens)) = TokenCount("DEDENT", Len(lexer.tokens))

\* The scope of the call that executes an import statement in this step
Importing(s) ==
    \E t \in DOMAIN tasks :
        /\ tasks[t].stack # <<>>
        /\ Top(tasks[t]).k = "stmt"
        /\ Top(tasks[t]).node.type = "ImportStatement"
        /\ Top(tasks[t]).scope = s
        /\ tasks'[t] # tasks[t]

\* What `a.b.c` resolves to in the import program n: the live object
\* registered under the full name, the default export of the module
\* registered under it, or the module loaded from ./a.b.c
Resolved(n) ==
    IF n \in {1, 4} THEN LiveObject
    ELSE IF n \in {2, 5} THEN DefaultExport
    ELSE Object("f" :> Num(1))

\* The step binds `a` to v in the scope s and changes no other binding.
BindsOnly(s, v) ==
    /\ Len(scopes') = Len(scopes)
    /\ \A o \in DOMAIN scopes : o # s => scopes'[o] = scopes[o]
    /\ scopes'[s].parent = scopes[s].parent
    /\ DOMAIN scopes'[s].values = DOMAIN scopes[s].values \cup {"a"}
    /\ scopes'[s].values["a"] = v
    /\ \A name \in DOMAIN scopes[s].values \ {"a"} :
           scopes'[s].values[name] = scopes[s].values[name]

\* C37: `import a.b.c` resolves the full name, and binds what it resolves to
\* (the live object, or the module loaded from the locator) under `a` in the
\* scope that executes the statement; no other binding is created or changed.
\* At the end of the programs that import in a function the global `a` is
\* still 1 and the call has returned the module.
C37_ImportBindsFirstName ==
    /\ [][\A s \in DOMAIN scopes :
            (prog.fam = "import" /\ Importing(s)) =>
                (scopes' = scopes \/ BindsOnly(s, Resolved(prog.n)))]_vars
    /\ []((prog.fam = "import" /\ Succeeded) =>
            /\ Global("done") = Num(1)
            /\ prog.n <= 3 => Global("a") = Resolved(prog.n)
            /\ prog.n > 3 => (Global("a") = Num(1) /\ Global("x") = Resolved(prog.n)))

\* The module registered under `a.b.c` was loaded and bound in the call of f:
\* the program has ended with x the default export and the global a unchanged.
C37_Witness ==
    /\ prog = Desc("import", 5, <<>>)
    /\ Succeeded
    /\ Global("x") = DefaultExport
    /\ Global("a") = Num(1)

\* The value the assignment of the program computes from the global g = 5
SqrdAssigned ==
    CompoundOp(sqrd.program.operator, Num(5), Num(sqrd.program.value))

\* C38: in the Map-based Interpreter, once the run of a program whose function
\* assigns to the global variable g has ended, the global binding of g holds
\* the assigned value, and so does the variable the caller copied g into after
\* the call.
C38_AssignmentReachesGlobal ==
    (sqrd.state = "done" /\ sqrd.program.name = "g") =>
        /\ sqrd.maps[1]["g"] = SqrdAssigned
        /\ sqrd.maps[1]["after"] = SqrdAssigned

\* C39: every key press is observable: no mark of a pressed key is cleared by
\* EndDrawing before script code has run with the mark set; and a keydown for
\* a key that is held does not mark it pressed again.
C39_EveryPressObservable ==
    /\ [](mesh.missed = {})
    /\ [][\A k \in Keys :
            (k \in mesh.keys /\ mesh'.keys = mesh.keys /\ mesh'.pc = mesh.pc
                /\ mesh'.keysReleased = mesh.keysReleased)
                => (k \in mesh'.keysPressed <=> k \in mesh.keysPressed)]_vars

====
